---- MODULE Spec2Model ----
(***************************************************************************)
(* Verification model of diffuse-cli: configuration validation, the usage  *)
(* graph and its blast radius, the breaking-change detector, and the CLI   *)
(* pipeline that combines them.                                            *)
(*                                                                         *)
(* Conventions                                                             *)
(*  - Points and risk weights are counted in tenths of a point, so that    *)
(*    the ImportedInFiles multiplier 1.2 is the integer 12.                *)
(*  - A JavaScript value that the code inspects dynamically (typeof, NaN,  *)
(*    undefined) is a tagged record: Num(n), NaN, Str, Undefined.          *)
(***************************************************************************)
EXTENDS Integers, Sequences, FiniteSets, TLC

VARIABLES
  pc,          \* position of the operation that is running
  config,      \* the ResolvedConfig handed to the operation (or Undefined)
  validation,  \* outcome of validateConfig: "none", "ok" or the error thrown
  graph,       \* the UsageGraph: file path -> GraphType
  radius,      \* the last result of calculateBlastRadius, with its argument
  oldText,     \* analyzeFile: the text the old source file is parsed from
  newText,     \* analyzeFile: the text the new source file is parsed from
  fileAnalysis, \* the value returned by analyzeFile
  project,     \* the ts-morph Project: the source files of the repository
  changes,     \* the FileChange list (changedFilesWithStatus)
  provider,    \* the content provider: path -> old and new text
  options,     \* the options of the run (includeTests)
  breakingChanges, \* the value returned by analyzeBreakingChanges
  retrieved,   \* what GitService returned for each changed path: old and new
  changedFiles, \* the paths of the changed files handed to calculateGraphScore
  lineStats,   \* git's line statistics: path -> added, removed, totalLines
  graphScore,  \* the value returned by calculateGraphScore
  report,      \* what the generated report shows
  git,         \* what the git commands and the file system answer
  gitChanges,  \* what getChangedFilesWithStatus returned
  configFiles, \* the configuration files of the working directory
  configPath,  \* the argument of loadConfig, "" when there is none
  fileFilter,  \* the options of the FileFilter a path is put to
  candidate,   \* the path put to the filter, as it is written
  verdict      \* the last answer of the filter, with the method that gave it

configVars == <<config, validation>>
graphVars == <<graph, radius>>
fileVars == <<oldText, newText, fileAnalysis>>
analyzeVars ==
  <<project, changes, provider, options, breakingChanges, retrieved>>
reportVars == <<changedFiles, lineStats, graphScore, report>>
loadVars == <<configFiles, configPath>>
gitVars == <<git, gitChanges>>
filterVars == <<fileFilter, candidate, verdict>>
vars ==
  <<pc, configVars, graphVars, fileVars, analyzeVars, reportVars, filterVars,
    loadVars, gitVars>>

(***************************************************************************)
(* JavaScript values                                                       *)
(***************************************************************************)
Num(n) == [type |-> "number", num |-> n]
NaN == [type |-> "NaN"]
Str == [type |-> "string"]
Undefined == [type |-> "undefined"]

IsNumber(x) == x.type = "number"
\* typeof x === 'number' is true of NaN as well
TypeofNumber(x) == x.type \in {"number", "NaN"}
\* a relational comparison with NaN on either side is false
JsLt(a, b) == IsNumber(a) /\ IsNumber(b) /\ a.num < b.num
JsGt(a, b) == IsNumber(a) /\ IsNumber(b) /\ a.num > b.num
JsLe(a, b) == IsNumber(a) /\ IsNumber(b) /\ a.num <= b.num
JsGe(a, b) == IsNumber(a) /\ IsNumber(b) /\ a.num >= b.num

(***************************************************************************)
(* constants.ts                                                            *)
(***************************************************************************)
RiskFactorType ==
  {"JSXEventChange", "PropsChanged", "ReturnTypeChanged", "TypeNarrowing",
   "TypeWidening", "MissingTest", "ExportRemoved", "ExportAdded",
   "DangerousTypeUse", "PublicAPI", "ImportedInFiles", "UsedInMultipleTrees",
   "PartialImport", "FileRemoved", "FileAdded", "FileRenamed", "LargeChange"}

\* the default weights, in tenths of a point
riskWeights ==
  [JSXEventChange |-> 120, PropsChanged |-> 100, ReturnTypeChanged |-> 80,
   TypeNarrowing |-> 60, TypeWidening |-> 20, MissingTest |-> 40,
   ExportRemoved |-> 100, ExportAdded |-> 0, DangerousTypeUse |-> 40,
   PublicAPI |-> 50, ImportedInFiles |-> 12, UsedInMultipleTrees |-> 50,
   PartialImport |-> 0, FileRemoved |-> 100, FileAdded |-> 20,
   FileRenamed |-> 50, LargeChange |-> 70]

(***************************************************************************)
(* config.ts                                                               *)
(***************************************************************************)
DEFAULT_CONFIG ==
  [riskWeights |-> [f \in RiskFactorType |-> Num(riskWeights[f])],
   thresholds |-> [highRisk |-> Num(60), mediumRisk |-> Num(40),
                   veryHighRisk |-> Num(80), largeChangePercentage |-> Num(20)],
   analysis |-> [includeTestCoverage |-> TRUE, includeUsageGraph |-> TRUE,
                 maxFilesInGraph |-> Undefined],
   reporting |-> [includeSuggestions |-> TRUE, verboseStats |-> FALSE]]

\* validateConfig: "ok" when it returns, else the message of the Error thrown
validateConfig_NoMaxFiles(cfg) ==
  LET t == cfg.thresholds IN
  IF JsGe(t.mediumRisk, t.highRisk)
    THEN "mediumRisk threshold must be less than highRisk threshold"
  ELSE IF JsGe(t.highRisk, t.veryHighRisk)
    THEN "highRisk threshold must be less than veryHighRisk threshold"
  ELSE IF JsLe(t.largeChangePercentage, Num(0))
          \/ JsGt(t.largeChangePercentage, Num(100))
    THEN "largeChangePercentage must be between 0 and 100"
  ELSE IF \E f \in DOMAIN cfg.riskWeights :
            ~TypeofNumber(cfg.riskWeights[f]) \/ JsLt(cfg.riskWeights[f], Num(0))
    THEN "Risk weight must be a non-negative number"
  ELSE "ok"

validateConfig(cfg) ==
  LET t == cfg.thresholds IN
  IF JsGe(t.mediumRisk, t.highRisk)
    THEN "mediumRisk threshold must be less than highRisk threshold"
  ELSE IF JsGe(t.highRisk, t.veryHighRisk)
    THEN "highRisk threshold must be less than veryHighRisk threshold"
  ELSE IF JsLe(t.largeChangePercentage, Num(0))
          \/ JsGt(t.largeChangePercentage, Num(100))
    THEN "largeChangePercentage must be between 0 and 100"
  ELSE IF \E f \in DOMAIN cfg.riskWeights :
            ~TypeofNumber(cfg.riskWeights[f]) \/ JsLt(cfg.riskWeights[f], Num(0))
    THEN "Risk weight must be a non-negative number"
  ELSE IF cfg.analysis.maxFilesInGraph # Undefined
          /\ JsLe(cfg.analysis.maxFilesInGraph, Num(0))
    THEN "maxFilesInGraph must be a positive number"
  ELSE "ok"

\* The objects of configuration files: the keys riskWeights and thresholds of
\* a configuration and the key diffuse of a package.json, Undefined when the
\* key is absent.  thresholds has Undefined for a threshold it does not
\* give; riskWeights gives the weights of the factors of its domain.
JsObject(diffuse, thresholds, userWeights) ==
  [diffuse |-> diffuse, thresholds |-> thresholds, riskWeights |-> userWeights]
EmptyObject == JsObject(Undefined, Undefined, Undefined)

\* a file: whether it exists, whether its text is JSON (or, for a .js file,
\* a module that loads), and the object it holds
ConfigFile(exists, wellFormed, object) ==
  [exists |-> exists, wellFormed |-> wellFormed, object |-> object]
NoFile == ConfigFile(FALSE, TRUE, EmptyObject)

possiblePaths ==
  <<"diffuse.config.js", "diffuse.config.json", ".diffuserc.json",
    ".diffuserc.js", "package.json">>
ConfigPaths == {possiblePaths[i] : i \in DOMAIN possiblePaths} \cup {"config.yaml"}

\* path.extname on the file names of the model
extname(filePath) ==
  CASE filePath \in {"diffuse.config.js", ".diffuserc.js"} -> ".js"
    [] filePath \in {"diffuse.config.json", ".diffuserc.json", "package.json"}
         -> ".json"
    [] filePath = "config.yaml" -> ".yaml"

\* filePath.endsWith(suffix) for the two suffixes loadConfigFile tests
endsWith(filePath, suffix) ==
  \/ suffix = ".diffuserc.json" /\ filePath = ".diffuserc.json"
  \/ suffix = ".diffuserc.js" /\ filePath = ".diffuserc.js"

Loaded(object) == [threw |-> FALSE, object |-> object]
LoadFailed == [threw |-> TRUE, object |-> EmptyObject]

\* packageJson.diffuse || {}
DiffuseKey(packageJson) ==
  IF packageJson.diffuse = Undefined THEN EmptyObject ELSE packageJson.diffuse

\* loadConfigFile(filePath): the branch of the extension .json, which
\* returns what JSON.parse gives
loadJson(file) ==
  IF file.wellFormed THEN Loaded(file.object) ELSE LoadFailed

\* loadConfigFile(filePath): the branch for package.json
loadPackageJson(file) ==
  IF file.wellFormed THEN Loaded(DiffuseKey(file.object)) ELSE LoadFailed

\* loadConfigFile(filePath); a module of the model has no export named
\* default, and a throw becomes the Error "Failed to load config from ..."
loadConfigFile(filePath, files) ==
  LET ext == extname(filePath) IN
  IF ext = ".json" \/ endsWith(filePath, ".diffuserc.json")
    THEN loadJson(files[filePath])
  ELSE IF ext = ".js" \/ endsWith(filePath, ".diffuserc.js")
    THEN loadJson(files[filePath])
  ELSE IF filePath = "package.json"
    THEN loadPackageJson(files[filePath])
  ELSE LoadFailed

\* for (const possiblePath of possiblePaths) if (fs.existsSync(possiblePath))
RECURSIVE FirstExisting(_, _)
FirstExisting(paths, files) ==
  IF paths = <<>> THEN ""
  ELSE IF files[Head(paths)].exists THEN Head(paths)
  ELSE FirstExisting(Tail(paths), files)

\* the file loadConfig takes the user configuration from: "" when it takes
\* none, "(missing)" when the path given does not exist
ConfigSource(path, files) ==
  IF path # ""
    THEN IF files[path].exists THEN path ELSE "(missing)"
  ELSE FirstExisting(possiblePaths, files)

\* userConfig.thresholds?.[key] ?? DEFAULT_CONFIG.thresholds[key]
ThresholdOr(userConfig, key) ==
  IF userConfig.thresholds = Undefined THEN DEFAULT_CONFIG.thresholds[key]
  ELSE IF userConfig.thresholds[key] = Undefined
    THEN DEFAULT_CONFIG.thresholds[key]
  ELSE userConfig.thresholds[key]

\* the merge of loadConfig, on the fields of the model's objects
MergeWithDefaults(userConfig) ==
  [DEFAULT_CONFIG EXCEPT
     !.riskWeights =
        IF userConfig.riskWeights = Undefined THEN @
        ELSE [f \in DOMAIN @ |->
                IF f \in DOMAIN userConfig.riskWeights
                  THEN userConfig.riskWeights[f] ELSE @[f]],
     !.thresholds = [key \in DOMAIN @ |-> ThresholdOr(userConfig, key)]]

\* the end of loadConfig: merge, validateConfig(resolved), return resolved
ResolveAndValidate(userConfig) ==
  LET resolved == MergeWithDefaults(userConfig)
      message == validateConfig(resolved)
  IN [config |-> IF message = "ok" THEN resolved ELSE Undefined,
      validation |-> message]

\* loadConfig(configPath): the configuration returned and "ok", or Undefined
\* and the message of the Error thrown
loadConfig(path, files) ==
  LET source == ConfigSource(path, files)
      loaded == IF source = "" THEN Loaded(EmptyObject)
                ELSE loadConfigFile(source, files)
  IN IF source = "(missing)"
       THEN [config |-> Undefined, validation |-> "Configuration file not found"]
     ELSE IF loaded.threw
       THEN [config |-> Undefined, validation |-> "Failed to load config"]
     ELSE ResolveAndValidate(loaded.object)

NoFiles == [p \in ConfigPaths |-> NoFile]
IdleLoad == configFiles = NoFiles /\ configPath = ""


(***************************************************************************)
(* buildUsageGraph.ts: the usage graph and calculateBlastRadius            *)
(***************************************************************************)
\* A file path is its directory segments and the dot-separated parts of its
\* file name: src/lib/a.ts is [dirs |-> <<"src","lib">>, name |-> <<"a","ts">>].
Path(dirs, name) == [dirs |-> dirs, name |-> name]

\* graph[absPath] = { exports: [], imports: [], importedBy: [], ... }
NewNode ==
  [exports |-> <<>>, imports |-> <<>>, importedBy |-> <<>>, subsystem |-> <<>>,
   isPartial |-> FALSE]
EmptyGraph == <<>>
\* g with the entry of key k set to val (the key is created when missing)
Extend(g, k, val) ==
  [x \in DOMAIN g \cup {k} |-> IF x = k THEN val ELSE g[x]]
NoRadius == [computed |-> FALSE]

\* graph[current]?.importedBy ?? []
Dependents(g, current) ==
  IF current \in DOMAIN g THEN g[current].importedBy ELSE <<>>

RECURSIVE BlastLoop(_, _, _, _)
BlastLoop(g, queue, visited, impactCount) ==
  IF queue = <<>> THEN impactCount
  ELSE LET current == Head(queue) IN
       IF current \in visited
         THEN BlastLoop(g, Tail(queue), visited, impactCount)
         ELSE BlastLoop(g, Tail(queue) \o Dependents(g, current),
                        visited \cup {current},
                        impactCount + Len(Dependents(g, current)))

\* mutant: impactCount = dependents.length instead of +=
RECURSIVE BlastLoop_Assign(_, _, _, _)
BlastLoop_Assign(g, queue, visited, impactCount) ==
  IF queue = <<>> THEN impactCount
  ELSE LET current == Head(queue) IN
       IF current \in visited
         THEN BlastLoop_Assign(g, Tail(queue), visited, impactCount)
         ELSE BlastLoop_Assign(g, Tail(queue) \o Dependents(g, current),
                               visited \cup {current},
                               Len(Dependents(g, current)))
calculateBlastRadius_Assign(g, filePath) ==
  BlastLoop_Assign(g, <<filePath>>, {}, 0)

\* mutant: only the dependents that were not expanded before are counted
RECURSIVE BlastLoop_Distinct(_, _, _, _)
BlastLoop_Distinct(g, queue, visited, impactCount) ==
  IF queue = <<>> THEN impactCount
  ELSE LET current == Head(queue) IN
       IF current \in visited
         THEN BlastLoop_Distinct(g, Tail(queue), visited, impactCount)
         ELSE BlastLoop_Distinct(g, Tail(queue) \o Dependents(g, current),
                visited \cup {current},
                impactCount
                  + Len(SelectSeq(Dependents(g, current),
                                  LAMBDA d : d \notin visited \cup {current})))
calculateBlastRadius_DistinctFiles(g, filePath) ==
  BlastLoop_Distinct(g, <<filePath>>, {}, 0)

\* mutant: the start file itself is counted as impacted
calculateBlastRadius_CountsStart(g, filePath) ==
  BlastLoop(g, <<filePath>>, {}, 1)

calculateBlastRadius(g, filePath) == BlastLoop(g, <<filePath>>, {}, 0)

\* the same loop, keeping the nodes in the order in which they pass the
\* visited test and have their dependents counted
RECURSIVE ExpansionLoop(_, _, _, _)
ExpansionLoop(g, queue, visited, expanded) ==
  IF queue = <<>> THEN expanded
  ELSE LET current == Head(queue) IN
       IF current \in visited
         THEN ExpansionLoop(g, Tail(queue), visited, expanded)
         ELSE ExpansionLoop(g, Tail(queue) \o Dependents(g, current),
                            visited \cup {current}, Append(expanded, current))
Expansions(g, filePath) == ExpansionLoop(g, <<filePath>>, {}, <<>>)

IdleGraph == graph = EmptyGraph /\ radius = NoRadius

(***************************************************************************)
(* analyzeBreakingChanges.ts: analyzeFile and the comparisons it makes     *)
(***************************************************************************)
\* The types that occur in signatures, and checker.isTypeAssignableTo on them:
\* a type is assignable to itself, the literal 'a' to string, and any to and
\* from every type.
Types == {"string", "'a'", "number", "any"}
isTypeAssignableTo(s, t) ==
  s = t \/ s = "any" \/ t = "any" \/ (s = "'a'" /\ t = "string")

\* An exported declaration as ts-morph hands it out: its kind name and, by
\* kind, the return type and parameter types or the property list.
Decl(kind, ret, params, props) ==
  [kind |-> kind, returnType |-> ret, parameters |-> params, properties |-> props]
Absent == Decl("absent", "none", <<>>, <<>>)
FunctionDecl(ret, params) == Decl("FunctionDeclaration", ret, params, <<>>)
InterfaceDecl(props) == Decl("InterfaceDeclaration", "none", <<>>, props)
VariableDecl == Decl("VariableDeclaration", "none", <<>>, <<>>)
Prop(name, optional) == [name |-> name, optional |-> optional]

\* A file text is its raw form ("Skipped", "", " " or "code") and, for code,
\* the export statement it holds for each name, in the order of the file.
ExportNames == <<"foo", "User">>
NoDecls == [n \in {"foo", "User"} |-> Absent]
Text(raw, decls) == [raw |-> raw, decls |-> decls]

\* sourceFile.getExportedDeclarations(): the names that have a declaration
getExportedDeclarations(text) ==
  SelectSeq(ExportNames, LAMBDA n : text.decls[n] # Absent)

\* config.riskWeights[factor]
Weight(cfg, factor) == cfg.riskWeights[factor].num

isTypeNarrowed_NewToOldOnly(oldType, newType) ==
  isTypeAssignableTo(newType, oldType)

isTypeNarrowed_Widened(oldType, newType) ==
  isTypeAssignableTo(oldType, newType) /\ ~isTypeAssignableTo(newType, oldType)

isTypeNarrowed(oldType, newType) ==
  LET oldToNew == isTypeAssignableTo(oldType, newType)
      newToOld == isTypeAssignableTo(newType, oldType)
  IN newToOld /\ ~oldToNew

\* the issues of compareFunctionSignature, one entry per issue pushed
compareFunctionSignature(oldFn, newFn) ==
  LET oldParams == oldFn.parameters
      newParams == newFn.parameters
      retIssue == IF isTypeNarrowed(oldFn.returnType, newFn.returnType)
                    THEN <<"Return type narrowed">> ELSE <<>>
      paramIssues ==
        IF Len(newParams) < Len(oldParams) THEN <<"Removed parameter(s)">>
        ELSE IF Len(newParams) > Len(oldParams) THEN <<"Added parameter(s)">>
        ELSE [k \in 1..Cardinality({i \in 1..Len(oldParams) :
                       isTypeNarrowed(oldParams[i], newParams[i])})
                |-> "Parameter type narrowed"]
  IN retIssue \o paramIssues

\* Object.fromEntries(properties.map(p => [p.getName(), p])): the last
\* property of a name wins
PropsByName(decl) ==
  [n \in {decl.properties[i].name : i \in DOMAIN decl.properties} |->
     decl.properties[CHOOSE i \in DOMAIN decl.properties :
       /\ decl.properties[i].name = n
       /\ \A j \in DOMAIN decl.properties :
            decl.properties[j].name = n => j <= i]]

\* the property names in insertion order (first occurrence of each name)
PropOrder(decl) ==
  LET firsts == SelectSeq([i \in DOMAIN decl.properties |-> i],
                  LAMBDA i : \A j \in 1..(i - 1) :
                      decl.properties[j].name # decl.properties[i].name)
  IN [k \in DOMAIN firsts |-> decl.properties[firsts[k]].name]

compareInterfaces_Reversed(oldInterface, newInterface) ==
  LET oldProps == PropsByName(oldInterface)
      newProps == PropsByName(newInterface)
      oldPass == SelectSeq(PropOrder(oldInterface),
                   LAMBDA n : \/ n \notin DOMAIN newProps
                              \/ (~oldProps[n].optional /\ newProps[n].optional))
      newPass == SelectSeq(PropOrder(newInterface),
                   LAMBDA n : n \notin DOMAIN oldProps)
  IN [k \in DOMAIN oldPass |->
        IF oldPass[k] \notin DOMAIN newProps
          THEN [issue |-> "was removed", prop |-> oldPass[k]]
          ELSE [issue |-> "is now required", prop |-> oldPass[k]]]
     \o [k \in DOMAIN newPass |-> [issue |-> "was added", prop |-> newPass[k]]]

\* the issues of compareInterfaces, in the order they are pushed
compareInterfaces(oldInterface, newInterface) ==
  LET oldProps == PropsByName(oldInterface)
      newProps == PropsByName(newInterface)
      oldPass == SelectSeq(PropOrder(oldInterface),
                   LAMBDA n : \/ n \notin DOMAIN newProps
                              \/ (oldProps[n].optional /\ ~newProps[n].optional))
      newPass == SelectSeq(PropOrder(newInterface),
                   LAMBDA n : n \notin DOMAIN oldProps)
  IN [k \in DOMAIN oldPass |->
        IF oldPass[k] \notin DOMAIN newProps
          THEN [issue |-> "was removed", prop |-> oldPass[k]]
          ELSE [issue |-> "is now required", prop |-> oldPass[k]]]
     \o [k \in DOMAIN newPass |-> [issue |-> "was added", prop |-> newPass[k]]]

\* the risk factors analyzeFile pushes for one export name, in order
NameFactors(oldDecl, newDecl) ==
  IF oldDecl = Absent /\ newDecl # Absent THEN <<"ExportAdded">>
  ELSE IF oldDecl # Absent /\ newDecl = Absent THEN <<"ExportRemoved">>
  ELSE IF oldDecl = Absent \/ newDecl = Absent THEN <<>>
  ELSE IF oldDecl.kind = "FunctionDeclaration"
          /\ newDecl.kind = "FunctionDeclaration"
    THEN [k \in DOMAIN compareFunctionSignature(oldDecl, newDecl) |->
            "ReturnTypeChanged"]
  ELSE IF oldDecl.kind = "InterfaceDeclaration"
          /\ newDecl.kind = "InterfaceDeclaration"
    THEN [k \in DOMAIN compareInterfaces(oldDecl, newDecl) |-> "PropsChanged"]
  ELSE <<>>

\* allNames: the old export names, then the new ones not yet seen
AllNames(oldSourceFile, newSourceFile) ==
  LET oldNames == getExportedDeclarations(oldSourceFile)
      newNames == getExportedDeclarations(newSourceFile)
  IN oldNames \o SelectSeq(newNames,
                   LAMBDA n : \A i \in DOMAIN oldNames : oldNames[i] # n)

RECURSIVE SumPoints(_)
SumPoints(scores) ==
  IF scores = <<>> THEN 0 ELSE Head(scores).points + SumPoints(Tail(scores))

RECURSIVE AnalyzeNames(_, _, _, _, _)
AnalyzeNames(names, oldSourceFile, newSourceFile, cfg, acc) ==
  IF names = <<>> \/ acc.threw THEN acc
  ELSE LET name == Head(names)
           factors == NameFactors(oldSourceFile.decls[name],
                                  newSourceFile.decls[name])
       IN IF factors = <<>>
            THEN AnalyzeNames(Tail(names), oldSourceFile, newSourceFile, cfg, acc)
          ELSE IF cfg = Undefined
            \* config.riskWeights of undefined: a TypeError is thrown
            THEN [acc EXCEPT !.threw = TRUE]
          ELSE AnalyzeNames(Tail(names), oldSourceFile, newSourceFile, cfg,
                 [acc EXCEPT
                    !.changedExports = Append(@, name),
                    !.scores = @ \o [k \in DOMAIN factors |->
                                  [subject |-> name, factor |-> factors[k],
                                   points |-> Weight(cfg, factors[k])]],
                    !.fileScore = @ + SumPoints([k \in DOMAIN factors |->
                                  [points |-> Weight(cfg, factors[k])]])])

\* analyzeFile(newSourceFile, oldSourceFile, project, config); the explanation
\* and issue strings, which only repeat the subject and factor, are left out
analyzeFile(newSourceFile, oldSourceFile, cfg) ==
  AnalyzeNames(AllNames(oldSourceFile, newSourceFile), oldSourceFile,
               newSourceFile, cfg,
               [threw |-> FALSE, changedExports |-> <<>>, scores |-> <<>>,
                fileScore |-> 0])

NoText == Text("none", NoDecls)
NoAnalysis == [threw |-> FALSE, changedExports |-> <<>>, scores |-> <<>>,
               fileScore |-> -1]
IdleFile == oldText = NoText /\ newText = NoText /\ fileAnalysis = NoAnalysis

(***************************************************************************)
(* utils/FileFilter.ts                                                     *)
(*                                                                         *)
(* Paths are split at "/" into dirs and a file name, and the file name at  *)
(* "." into parts; an absolute path has the empty string as first segment, *)
(* as "/repo/a.ts".split("/") has.  Directory segments hold no dot.        *)
(***************************************************************************)
SUPPORTED_EXTENSIONS == {"ts", "tsx", "js", "jsx"}

\* String.prototype.toLowerCase on the segments that occur in the model
toLowerCase(str) ==
  CASE str = "TS" -> "ts"
    [] str = "Test" -> "test"
    [] str = "Spec" -> "spec"
    [] OTHER -> str

Last(seq) == seq[Len(seq)]

FileFilter(excludeNodeModules, excludeTestFiles, includePatterns) ==
  [excludeNodeModules |-> excludeNodeModules,
   excludeTestFiles |-> excludeTestFiles,
   excludePatterns |-> {},
   includePatterns |-> includePatterns,
   supportedExtensions |-> SUPPORTED_EXTENSIONS]

\* /(^|\/)(test|tests|__tests__|__mocks__)(\/|$)/, /\.test\.(t|j)sx?$/ and
\* /\.spec\.(t|j)sx?$/
isTestFile(filePath) ==
  \/ \E i \in DOMAIN filePath.dirs :
       filePath.dirs[i] \in {"test", "tests", "__tests__", "__mocks__"}
  \/ /\ Len(filePath.name) = 1
     /\ filePath.name[1] \in {"test", "tests", "__tests__", "__mocks__"}
  \/ /\ Len(filePath.name) >= 3
     /\ filePath.name[Len(filePath.name) - 1] \in {"test", "spec"}
     /\ Last(filePath.name) \in {"ts", "tsx", "js", "jsx"}

\* supportedExtensions.some(ext => filePath.toLowerCase().endsWith(ext))
hasSupportedExtension(filter, filePath) ==
  /\ Len(filePath.name) >= 2
  /\ toLowerCase(Last(filePath.name)) \in filter.supportedExtensions

\* normalizedPath.includes('/node_modules/'): a node_modules directory that
\* has a "/" in front of it
isInNodeModules(filter, filePath) ==
  /\ filter.excludeNodeModules
  /\ \E i \in DOMAIN filePath.dirs : i >= 2 /\ filePath.dirs[i] = "node_modules"

\* the pattern with "." escaped and "*" turned into ".*", tested unanchored
\* and case-insensitively: the text between the stars has to occur after
\* a "/"
GlobMatches(pattern, filePath) ==
  CASE pattern = "**/*.test.*" ->
         /\ filePath.dirs # <<>>
         /\ \E k \in 2..(Len(filePath.name) - 1) :
              toLowerCase(filePath.name[k]) = "test"
    [] pattern = "**/*.spec.*" ->
         /\ filePath.dirs # <<>>
         /\ \E k \in 2..(Len(filePath.name) - 1) :
              toLowerCase(filePath.name[k]) = "spec"
    [] pattern = "**/__tests__/**" ->
         \E i \in DOMAIN filePath.dirs :
           i >= 2 /\ toLowerCase(filePath.dirs[i]) = "__tests__"
    [] pattern = "**/test/**" ->
         \E i \in DOMAIN filePath.dirs :
           i >= 2 /\ toLowerCase(filePath.dirs[i]) = "test"

matchesExcludePatterns(filter, filePath) ==
  /\ filter.excludePatterns # {}
  /\ \E pattern \in filter.excludePatterns : GlobMatches(pattern, filePath)

matchesIncludePatterns(filter, filePath) ==
  \/ filter.includePatterns = {}
  \/ \E pattern \in filter.includePatterns : GlobMatches(pattern, filePath)

shouldInclude(filter, filePath) ==
  /\ hasSupportedExtension(filter, filePath)
  /\ ~isInNodeModules(filter, filePath)
  /\ ~isTestFile(filePath)
  /\ ~matchesExcludePatterns(filter, filePath)
  /\ matchesIncludePatterns(filter, filePath)

createSourceFileFilter == FileFilter(TRUE, TRUE, {})
createTestFileFilter ==
  FileFilter(TRUE, FALSE,
             {"**/*.test.*", "**/*.spec.*", "**/__tests__/**", "**/test/**"})
createChangedFileFilter == FileFilter(TRUE, FALSE, {})

\* A path as it is written: the separator it uses and the segments between
\* the separators.  filePath.replace(/\\/g, '/') leaves the same segments,
\* separated by "/".
RawPath(sep, dirs, name) == [sep |-> sep, dirs |-> dirs, name |-> name]
Normalize(raw) == Path(raw.dirs, raw.name)

NoVerdict == [method |-> "none", value |-> FALSE]
IdleFilter ==
  /\ fileFilter = FileFilter(TRUE, TRUE, {})
  /\ candidate = RawPath("/", <<>>, <<>>)
  /\ verdict = NoVerdict

(***************************************************************************)
(* analyzeBreakingChanges.ts: analyzeBreakingChanges                       *)
(***************************************************************************)
\* a source file of the project: its absolute path, its text, its import
\* declarations, and the names that occur in its text as substrings
SourceFile(path, text, imports, mentions) ==
  [path |-> path, text |-> text, imports |-> imports, mentions |-> mentions]

\* the renamedFrom of a change that is no rename
NoPath == Path(<<>>, <<>>)
FileChange(path, status, renamedFrom) ==
  [path |-> path, status |-> status, renamedFrom |-> renamedFrom]

\* text.trim()
Trim(text) == IF text.raw = " " THEN "" ELSE text.raw

\* allTestFiles = project.getSourceFiles().filter(testFileFilter.shouldInclude)
allTestFiles(proj) ==
  SelectSeq(proj, LAMBDA f : shouldInclude(createTestFileFilter, f.path))

\* findUntestedChanges: the names that are no substring of the joined text of
\* the test files
findUntestedChanges(changedExports, testFiles) ==
  SelectSeq(changedExports,
            LAMBDA name : \A i \in DOMAIN testFiles : name \notin testFiles[i].mentions)

EmptyResult ==
  [threw |-> FALSE, scores |-> <<>>, totalScore |-> 0,
   skippedFiles |-> [unsupported |-> <<>>, failed |-> <<>>, empty |-> <<>>,
                     tests |-> <<>>]]

\* scores is an object keyed by path, kept as the list of its entries in
\* insertion order
HasEntry(scores, path) == \E i \in DOMAIN scores : scores[i].file = path
EntryOf(scores, path) == scores[CHOOSE i \in DOMAIN scores : scores[i].file = path]
\* scores[path] = { scores, fileScore }
SetEntry(scores, path, risks, fileScore) ==
  LET entry == [file |-> path, scores |-> risks, fileScore |-> fileScore]
  IN IF HasEntry(scores, path)
       THEN [i \in DOMAIN scores |->
               IF scores[i].file = path THEN entry ELSE scores[i]]
       ELSE Append(scores, entry)

Risk(subject, factor, cfg) ==
  [subject |-> subject, factor |-> factor, points |-> Weight(cfg, factor)]

\* x += w on a field that may be undefined
JsAdd(x, w) == IF IsNumber(x) THEN Num(x.num + w) ELSE NaN

\* lines 93-123: the file-level risk of an added, untracked or renamed file
FlagStatus(acc, file, cfg) ==
  IF file.status \in {"A", "U"}
    THEN [acc EXCEPT
            !.scores = SetEntry(@, file.path,
                         <<Risk(file.path, "FileAdded", cfg)>>, Undefined),
            !.totalScore = @ + Weight(cfg, "FileAdded")]
  ELSE IF file.status = "R" /\ file.renamedFrom # NoPath
    THEN [acc EXCEPT
            !.scores = SetEntry(@, file.path,
                         <<Risk(file.path, "FileRenamed", cfg)>>, Undefined),
            !.totalScore = @ + Weight(cfg, "FileRenamed")]
  ELSE acc

\* lines 135-147: analyzeFile and the replacement of the file's entry
StoreFileScores(acc, file, analysis) ==
  IF Len(analysis.scores) > 0
    THEN [acc EXCEPT
            !.scores = SetEntry(@, file.path, analysis.scores,
                                Num(analysis.fileScore)),
            !.totalScore = @ + analysis.fileScore]
    ELSE acc

\* mutant: one MissingTest risk per untested name
AddMissingTest_PerName(acc, file, analysis, cfg, opts, testFiles) ==
  LET names == IF Len(analysis.changedExports) > 0
                 THEN analysis.changedExports ELSE <<"(file)">>
      untested == findUntestedChanges(names, testFiles)
      risks == [k \in DOMAIN untested |-> Risk(file.path, "MissingTest", cfg)]
  IN IF opts.includeTests /\ Len(untested) > 0
       THEN [acc EXCEPT
               !.scores =
                  IF HasEntry(@, file.path)
                    THEN SetEntry(@, file.path,
                           EntryOf(@, file.path).scores \o risks,
                           JsAdd(EntryOf(@, file.path).fileScore,
                                 Weight(cfg, "MissingTest")))
                    ELSE SetEntry(@, file.path, risks, NaN),
               !.totalScore = @ + Weight(cfg, "MissingTest")]
       ELSE acc

\* lines 149-179: the MissingTest risk
AddMissingTest(acc, file, analysis, cfg, opts, testFiles) ==
  LET names == IF Len(analysis.changedExports) > 0
                 THEN analysis.changedExports ELSE <<"(file)">>
      untested == findUntestedChanges(names, testFiles)
      risk == Risk(file.path, "MissingTest", cfg)
  IN IF opts.includeTests /\ Len(untested) > 0
       THEN [acc EXCEPT
               !.scores =
                  IF HasEntry(@, file.path)
                    THEN SetEntry(@, file.path,
                           Append(EntryOf(@, file.path).scores, risk),
                           JsAdd(EntryOf(@, file.path).fileScore,
                                 Weight(cfg, "MissingTest")))
                    ELSE SetEntry(@, file.path, <<risk>>, NaN),
               !.totalScore = @ + Weight(cfg, "MissingTest")]
       ELSE acc

\* does the iteration for this file read config.riskWeights
ReadsConfig(file, oldTxt, newTxt, opts, testFiles) ==
  \/ file.status \in {"D", "A", "U"}
  \/ file.status = "R" /\ file.renamedFrom # NoPath
  \/ analyzeFile(newTxt, oldTxt, Undefined).threw
  \/ /\ opts.includeTests
     /\ Len(findUntestedChanges(<<"(file)">>, testFiles)) > 0

\* one iteration of the loop over files (lines 42-180)
AnalyzeChange(acc, file, oldTxt, newTxt, cfg, opts, testFiles) ==
  IF shouldInclude(createTestFileFilter, file.path)
    THEN [acc EXCEPT !.skippedFiles.tests = Append(@, file.path)]
  ELSE IF ~shouldInclude(createSourceFileFilter, file.path)
    THEN [acc EXCEPT !.skippedFiles.unsupported = Append(@, file.path)]
  ELSE IF ~hasSupportedExtension(createSourceFileFilter, file.path)
    THEN [acc EXCEPT !.skippedFiles.unsupported = Append(@, file.path)]
  ELSE IF oldTxt.raw = "Skipped" \/ newTxt.raw = "Skipped"
    THEN [acc EXCEPT !.skippedFiles.failed = Append(@, file.path)]
  ELSE IF Trim(oldTxt) = "" \/ Trim(newTxt) = ""
    THEN [acc EXCEPT !.skippedFiles.empty = Append(@, file.path)]
  ELSE IF cfg = Undefined /\ ReadsConfig(file, oldTxt, newTxt, opts, testFiles)
    \* config.riskWeights of undefined: a TypeError leaves the function
    THEN [acc EXCEPT !.threw = TRUE]
  ELSE IF cfg = Undefined
    THEN acc
  ELSE IF file.status = "D"
    THEN [acc EXCEPT
            !.scores = SetEntry(@, file.path,
                         <<Risk(file.path, "FileRemoved", cfg)>>, Undefined),
            !.totalScore = @ + Weight(cfg, "FileRemoved")]
  ELSE LET analysis == analyzeFile(newTxt, oldTxt, cfg)
       IN AddMissingTest(
            StoreFileScores(FlagStatus(acc, file, cfg), file, analysis),
            file, analysis, cfg, opts, testFiles)

RECURSIVE AnalyzeLoop(_, _, _, _, _, _)
AnalyzeLoop(acc, files, prov, cfg, opts, testFiles) ==
  IF files = <<>> \/ acc.threw THEN acc
  ELSE AnalyzeLoop(
         AnalyzeChange(acc, Head(files), prov[Head(files).path].old,
                       prov[Head(files).path].new, cfg, opts, testFiles),
         Tail(files), prov, cfg, opts, testFiles)

\* analyzeBreakingChanges(files, project, options, config); the issues list,
\* which the report does not read, is left out
analyzeBreakingChanges(files, proj, prov, opts, cfg) ==
  AnalyzeLoop(EmptyResult, files, prov, cfg, opts, allTestFiles(proj))

NoResult == [EmptyResult EXCEPT !.totalScore = -1]
IdleAnalyze ==
  /\ project = <<>>
  /\ changes = <<>>
  /\ provider = <<>>
  /\ options = [includeTests |-> FALSE]
  /\ breakingChanges = NoResult
  /\ retrieved = <<>>

(***************************************************************************)
(* buildUsageGraph.ts: buildUsageGraph and calculateGraphScore             *)
(***************************************************************************)
\* process.cwd(), and path.resolve(filePath) against it
Cwd == <<"", "repo">>
Resolve(filePath) ==
  IF filePath.dirs # <<>> /\ filePath.dirs[1] = ""
    THEN filePath ELSE Path(Cwd \o filePath.dirs, filePath.name)

\* An import declaration of a source file: what its module specifier is
\* ("literal", "empty" for the literal '', "nonliteral", or "throws" when
\* getModuleSpecifier throws), the file the specifier refers to (NoPath when
\* it refers to no file of the project), and the imported symbols.
ImportDecl(kind, target, symbols) ==
  [kind |-> kind, target |-> target, symbols |-> symbols]

Includes(seq, x) == \E i \in DOMAIN seq : seq[i] = x

\* project.getSourceFile(absPath)
HasSourceFile(proj, absPath) == \E i \in DOMAIN proj : proj[i].path = absPath
ProjectSourceFile(proj, absPath) ==
  proj[CHOOSE i \in DOMAIN proj : proj[i].path = absPath]

\* inferSubsystem(path): a tag is kept as the dot-separated parts of the
\* string, <<"UI">> or, for the file name a.ts, <<"a", "ts">>
inferSubsystem(path) ==
  LET parts == [i \in DOMAIN path.dirs |-> <<path.dirs[i]>>] \o <<path.name>>
  IN IF Includes(parts, <<"components">>) THEN <<"UI">>
     ELSE IF Includes(parts, <<"lib">>) THEN <<"Library">>
     ELSE IF Includes(parts, <<"hooks">>) THEN <<"Hooks">>
     ELSE IF Includes(parts, <<"pages">>) THEN <<"Pages">>
     ELSE IF Includes(parts, <<"api">>) THEN <<"API">>
     ELSE IF Len(parts) >= 2 /\ parts[2] # <<"">> /\ parts[2] # <<>>
       THEN parts[2]
     ELSE <<"root">>

\* mutant: the file the module specifier refers to
ImportedFilePath_Target(sourceFile, imp) == imp.target

\* specNode.getSourceFile()?.getFilePath(): getSourceFile() of a node is the
\* source file that contains the node, here the importing file
ImportedFilePath(sourceFile, imp) == sourceFile.path

\* lines 84-139: the loop over the import declarations of one file
RECURSIVE ImportLoop(_, _, _, _)
ImportLoop(g, sourceFile, absPath, importDecls) ==
  IF importDecls = <<>> THEN g
  ELSE
    LET imp == Head(importDecls)
        importedPath == ImportedFilePath(sourceFile, imp)
        subsystem == inferSubsystem(absPath)
        withImport ==
          [g EXCEPT ![absPath].imports =
             Append(@, [from |-> importedPath, symbols |-> imp.symbols])]
        withNode ==
          IF importedPath \in DOMAIN withImport THEN withImport
          ELSE Extend(withImport, importedPath, NewNode)
        withEdge ==
          IF absPath # importedPath
             /\ ~Includes(withNode[importedPath].importedBy, absPath)
            THEN [withNode EXCEPT ![importedPath].importedBy = Append(@, absPath)]
            ELSE withNode
        withTag ==
          IF ~Includes(withEdge[importedPath].subsystem, subsystem)
            THEN [withEdge EXCEPT ![importedPath].subsystem = Append(@, subsystem)]
            ELSE withEdge
    IN IF imp.kind \in {"throws", "nonliteral"}
         THEN ImportLoop([g EXCEPT ![absPath].isPartial = TRUE], sourceFile,
                         absPath, Tail(importDecls))
       ELSE IF imp.kind = "empty"
         THEN ImportLoop(g, sourceFile, absPath, Tail(importDecls))
       ELSE IF importedPath = NoPath
         THEN ImportLoop([g EXCEPT ![absPath].isPartial = TRUE], sourceFile,
                         absPath, Tail(importDecls))
       ELSE ImportLoop(withTag, sourceFile, absPath, Tail(importDecls))

\* lines 65-140: the loop over the filtered files
RECURSIVE FileLoop(_, _, _)
FileLoop(g, proj, files) ==
  IF files = <<>> THEN g
  ELSE
    LET absPath == Resolve(Head(files))
        sourceFile == ProjectSourceFile(proj, absPath)
        withNode == IF absPath \in DOMAIN g THEN g ELSE Extend(g, absPath, NewNode)
        withExports ==
          [withNode EXCEPT ![absPath].exports =
             getExportedDeclarations(sourceFile.text)]
    IN IF ~HasSourceFile(proj, absPath) THEN FileLoop(g, proj, Tail(files))
       ELSE FileLoop(ImportLoop(withExports, sourceFile, absPath,
                                sourceFile.imports),
                     proj, Tail(files))

buildUsageGraph(proj, files) ==
  FileLoop(EmptyGraph, proj,
           SelectSeq(files, LAMBDA f : shouldInclude(createSourceFileFilter, f)))

NoGraphScore == [totalScore |-> -1, graphScore |-> <<>>]

\* lines 188-239: the loop over the changed files; the weights are the ones
\* of constants.ts, not the ones of the configuration
RECURSIVE GraphScoreLoop(_, _, _)
GraphScoreLoop(g, files, acc) ==
  IF files = <<>> THEN acc
  ELSE
    LET file == Head(files)
        absPath == Resolve(file)
        radius_ == calculateBlastRadius(g, absPath)
        dependents == Dependents(g, absPath)
        partial ==
          IF absPath \in DOMAIN g /\ g[absPath].isPartial
            THEN <<[subject |-> file, factor |-> "PartialImport", points |-> 0]>>
            ELSE <<>>
        radiusScore == radius_ * riskWeights["ImportedInFiles"]
        multiple ==
          IF Len(g[absPath].subsystem) > 1
            THEN <<[subject |-> file, factor |-> "UsedInMultipleTrees",
                    points |-> riskWeights["UsedInMultipleTrees"]]>>
            ELSE <<>>
        imported ==
          <<[subject |-> file, factor |-> "ImportedInFiles",
             points |-> radiusScore]>>
    IN IF Len(dependents) = 0
         THEN GraphScoreLoop(g, Tail(files),
                [acc EXCEPT !.graphScore = @ \o partial])
         ELSE GraphScoreLoop(g, Tail(files),
                [totalScore |-> acc.totalScore + radiusScore,
                 graphScore |-> acc.graphScore \o partial \o multiple \o imported])

calculateGraphScore(g, files) ==
  GraphScoreLoop(g, files, [totalScore |-> 0, graphScore |-> <<>>])

(***************************************************************************)
(* report.ts: the per-file scores of the report                            *)
(***************************************************************************)
\* riskLevel(score, mode): the level named in the text, for a score in tenths
riskLevel(score) ==
  IF score >= 800 THEN "Very High Risk"
  ELSE IF score >= 600 THEN "High Risk"
  ELSE IF score >= 400 THEN "Medium Risk"
  ELSE "Low Risk"

NoStats == [added |-> 0, removed |-> 0, totalLines |-> 0]
\* lineStats[file] || { added: 0, removed: 0, totalLines: 0 }
StatsOf(stats, file) == IF file \in DOMAIN stats THEN stats[file] ELSE NoStats

LARGE_CHANGE_PERCENTAGE_THRESHOLD == 20
\* percentageChanged > 20, with percentageChanged = totalLines > 0 ?
\* (totalChanged / totalLines) * 100 : 0
LargeChange(stats) ==
  /\ stats.totalLines > 0
  /\ (stats.added + stats.removed) * 100
       > LARGE_CHANGE_PERCENTAGE_THRESHOLD * stats.totalLines

\* Object.entries(breakingChanges.scores).flatMap(...): every risk with the
\* file it is stored under
RECURSIVE FlatScores(_)
FlatScores(scores) ==
  IF scores = <<>> THEN <<>>
  ELSE [k \in DOMAIN Head(scores).scores |->
          [file |-> Head(scores).file, score |-> Head(scores).scores[k]]]
       \o FlatScores(Tail(scores))

RECURSIVE CollectRisks(_, _)
CollectRisks(allScores, fileRisks) ==
  IF allScores = <<>> THEN fileRisks
  ELSE
    LET file == Head(allScores).file
        score == Head(allScores).score
    IN CollectRisks(Tail(allScores),
         IF \E i \in DOMAIN fileRisks : fileRisks[i].file = file
           THEN [i \in DOMAIN fileRisks |->
                   IF fileRisks[i].file = file
                     THEN [fileRisks[i] EXCEPT !.total = @ + score.points,
                                               !.risks = Append(@, score)]
                     ELSE fileRisks[i]]
           ELSE Append(fileRisks, [file |-> file, total |-> score.points,
                                   risks |-> <<score>>]))

\* getFileRisks(data): the files in the order their first risk is met
getFileRisks(bc, gs) ==
  CollectRisks(FlatScores(bc.scores)
                 \o [k \in DOMAIN gs.graphScore |->
                       [file |-> gs.graphScore[k].subject,
                        score |-> gs.graphScore[k]]],
               <<>>)

\* finalScores.sort((a, b) => b.finalScore - a.finalScore), a stable sort
RECURSIVE InsertByScore(_, _)
InsertByScore(sorted, entry) ==
  IF sorted = <<>> THEN <<entry>>
  ELSE IF Head(sorted).finalScore >= entry.finalScore
    THEN <<Head(sorted)>> \o InsertByScore(Tail(sorted), entry)
  ELSE <<entry>> \o sorted
RECURSIVE SortByScore(_, _)
SortByScore(entries, sorted) ==
  IF entries = <<>> THEN sorted
  ELSE SortByScore(Tail(entries), InsertByScore(sorted, Head(entries)))

\* the entries of finalScores with the risks shown for each file
finalScores(fileRisks, stats) ==
  SortByScore(
    [i \in DOMAIN fileRisks |->
       LET large == LargeChange(StatsOf(stats, fileRisks[i].file))
       IN [file |-> fileRisks[i].file,
           total |-> fileRisks[i].total,
           finalScore |-> fileRisks[i].total
                            + (IF large THEN riskWeights["LargeChange"] ELSE 0),
           level |-> riskLevel(fileRisks[i].total
                       + (IF large THEN riskWeights["LargeChange"] ELSE 0)),
           risks |-> fileRisks[i].risks
                       \o (IF large
                             THEN <<[subject |-> fileRisks[i].file,
                                     factor |-> "LargeChange",
                                     points |-> riskWeights["LargeChange"]]>>
                             ELSE <<>>)]],
    <<>>)

\* generateReport(data): the numbers the report prints
generateReport(data) ==
  LET fileRisks == getFileRisks(data.breakingChanges, data.graphScore)
  IN [generated |-> TRUE,
      totalRiskScore |-> data.totalRiskScore,
      level |-> riskLevel(data.totalRiskScore),
      totalFiles |-> Len(fileRisks),
      files |-> finalScores(fileRisks, data.lineStats)]

NoReport ==
  [generated |-> FALSE, totalRiskScore |-> 0, level |-> "none", totalFiles |-> 0,
   files |-> <<>>]
IdleReport ==
  /\ changedFiles = <<>>
  /\ lineStats = <<>>
  /\ graphScore = NoGraphScore
  /\ report = NoReport

(***************************************************************************)
(* services/GitService.ts: getChangedFilesWithStatus                       *)
(***************************************************************************)
\* a line of `git diff --name-status`, split at the tabs: parts[0], parts[1]
\* and, for a rename, parts[2] (NoPath when the line has no third part)
DiffLine(statusRaw, part1, part2) ==
  [statusRaw |-> statusRaw, part1 |-> part1, part2 |-> part2]

\* What the commands answer: whether a base ref was passed, the exit status
\* and the lines of `git diff --name-status`, the paths for which
\* `git cat-file -e ref:path` succeeds, the paths for which fs.existsSync is
\* true, the exit status and the lines of `git diff --name-only ref...HEAD`,
\* and the exit status and the lines of `git ls-files --others`.
GitAnswers(baseRefGiven, diffStatus, diffLines, inBase, inTree, rangeStatus, rangeNames, untrackedStatus, untracked) ==
  [baseRefGiven |-> baseRefGiven, diffStatus |-> diffStatus,
   diffLines |-> diffLines, inBase |-> inBase, inTree |-> inTree,
   rangeStatus |-> rangeStatus, rangeNames |-> rangeNames,
   untrackedStatus |-> untrackedStatus, untracked |-> untracked]

\* statusRaw.startsWith('R') on the status letters of the model
startsWithR(statusRaw) == statusRaw \in {"R100", "R087"}

\* isFileTouchedInDiff(filePath, baseRef)
isFileTouchedInDiff(g, filePath) ==
  IF g.rangeStatus # 0 THEN FALSE ELSE filePath \in g.rangeNames

\* mutant: a rename is taken for a phantom when either side is missing
IsPhantom_EitherSide(g, line) ==
  ~(line.part1 \in g.inBase) \/ ~(line.part2 \in g.inTree)

\* !fromExistsInBase && !fs.existsSync(renamedTo)
IsPhantom(g, line) ==
  ~(line.part1 \in g.inBase) /\ ~(line.part2 \in g.inTree)

\* the callback of .map: the FileChange of a line, or null
NullChange == FileChange(NoPath, "null", NoPath)
ChangeOfLine(g, line) ==
  IF startsWithR(line.statusRaw)
    THEN LET touchedInPR == \/ isFileTouchedInDiff(g, line.part1)
                            \/ isFileTouchedInDiff(g, line.part2)
         IN IF IsPhantom(g, line) THEN NullChange
            ELSE IF ~touchedInPR THEN NullChange
            ELSE FileChange(line.part2, "R", line.part1)
  ELSE IF line.statusRaw \in {"A", "D", "M"}
    THEN FileChange(line.part1, line.statusRaw, NoPath)
  ELSE NullChange

\* unique.set(change.path, change) for every change, then the values: a path
\* keeps the place of its first entry and has the value of its last one
RECURSIVE UniqueByPath(_, _)
UniqueByPath(allChanges, acc) ==
  IF allChanges = <<>> THEN acc
  ELSE LET change == Head(allChanges)
       IN IF \E i \in DOMAIN acc : acc[i].path = change.path
            THEN UniqueByPath(Tail(allChanges),
                   [i \in DOMAIN acc |->
                      IF acc[i].path = change.path THEN change ELSE acc[i]])
          ELSE UniqueByPath(Tail(allChanges), Append(acc, change))

getChangedFilesWithStatus(g) ==
  LET mapped == [i \in DOMAIN g.diffLines |-> ChangeOfLine(g, g.diffLines[i])]
      changes_ == SelectSeq(mapped, LAMBDA fc : fc # NullChange)
      untrackedFiles ==
        [i \in DOMAIN g.untracked |-> FileChange(g.untracked[i], "U", NoPath)]
  IN IF g.diffStatus # 0 THEN <<>>
     ELSE IF g.untrackedStatus # 0 THEN changes_
     ELSE UniqueByPath(changes_ \o untrackedFiles, <<>>)

NoGit == GitAnswers(FALSE, 0, <<>>, {}, {}, 0, {}, 0, <<>>)
NotReturned == [returned |-> FALSE, changes |-> <<>>]
IdleGit == git = NoGit /\ gitChanges = NotReturned

(***************************************************************************)
(* Specification SpecConfig: validateConfig applied to resolved            *)
(* configurations drawn from a bounded set.                                *)
(***************************************************************************)
ThresholdValues == {Num(40), Num(60), Num(80), NaN}
PercentageValues == {Num(-5), Num(0), Num(20), Num(100), Num(101), NaN}
WeightValues == {Num(-10), Num(0), Num(100), Str, NaN}
MaxFilesValues == {Undefined, Num(-1), Num(0), Num(50), NaN}

ResolvedConfigs ==
  { [DEFAULT_CONFIG EXCEPT
       !.thresholds = [mediumRisk |-> m, highRisk |-> h, veryHighRisk |-> v,
                       largeChangePercentage |-> l],
       !.riskWeights = [@ EXCEPT !["PropsChanged"] = w1, !["MissingTest"] = w2],
       !.analysis = [@ EXCEPT !.maxFilesInGraph = mf],
       !.reporting = [@ EXCEPT !.includeSuggestions = s]] :
      m \in ThresholdValues \ {Num(80)}, h \in ThresholdValues \ {NaN},
      v \in ThresholdValues \ {Num(40)}, l \in PercentageValues,
      w1 \in WeightValues, w2 \in WeightValues,
      mf \in MaxFilesValues, s \in BOOLEAN }

InitConfig ==
  /\ pc = "resolved"
  /\ IdleFilter
  /\ IdleLoad
  /\ IdleGit
  /\ config \in ResolvedConfigs
  /\ validation = "none"
  /\ IdleGraph
  /\ IdleFile
  /\ IdleAnalyze
  /\ IdleReport

ValidateConfig ==
  /\ pc = "resolved"
  /\ validation' = validateConfig(config)
  /\ pc' = IF validation' = "ok" THEN "validated" ELSE "threw"
  /\ UNCHANGED <<filterVars, loadVars, gitVars>>
  /\ UNCHANGED <<config, graphVars, fileVars, analyzeVars, reportVars>>

NextConfig == ValidateConfig

SpecConfig == InitConfig /\ [][NextConfig]_vars

\* The conditions of the claim, read as JavaScript comparisons of numbers.
ThresholdsOrdered(cfg) ==
  /\ JsLt(cfg.thresholds.mediumRisk, cfg.thresholds.highRisk)
  /\ JsLt(cfg.thresholds.highRisk, cfg.thresholds.veryHighRisk)
PercentageInRange(cfg) ==
  /\ JsLt(Num(0), cfg.thresholds.largeChangePercentage)
  /\ JsLe(cfg.thresholds.largeChangePercentage, Num(100))
WeightsNonNegative(cfg) ==
  \A f \in DOMAIN cfg.riskWeights :
    IsNumber(cfg.riskWeights[f]) /\ cfg.riskWeights[f].num >= 0
HasNaN(cfg) ==
  \/ \E k \in DOMAIN cfg.thresholds : cfg.thresholds[k] = NaN
  \/ \E f \in DOMAIN cfg.riskWeights : cfg.riskWeights[f] = NaN
  \/ cfg.analysis.maxFilesInGraph = NaN
MaxFilesPositive(cfg) ==
  \/ cfg.analysis.maxFilesInGraph = Undefined
  \/ JsGt(cfg.analysis.maxFilesInGraph, Num(0))

MaxImporters == 2

FileA == Path(<<"src", "lib">>, <<"a", "ts">>)
FileB == Path(<<"src", "components">>, <<"b", "ts">>)
FileC == Path(<<"src", "pages">>, <<"c", "ts">>)
GraphFiles == {FileA, FileB, FileC}

SeqsUpTo(S, n) == UNION {[1..k -> S] : k \in 0..n}

GraphNodes ==
  {[NewNode EXCEPT !.importedBy = s] : s \in SeqsUpTo(GraphFiles, MaxImporters)}
Graphs == UNION {[S -> GraphNodes] : S \in SUBSET GraphFiles}

\* graph[v].importedBy.push(u), creating graph[v] when it is missing
WithImporter(g, u, v) ==
  IF v \in DOMAIN g
    THEN [g EXCEPT ![v].importedBy = Append(@, u)]
    ELSE Extend(g, v, [NewNode EXCEPT !.importedBy = <<u>>])

InitRadius ==
  /\ pc = "built"
  /\ IdleFilter
  /\ IdleLoad
  /\ IdleGit
  /\ config = Undefined
  /\ validation = "none"
  /\ graph \in Graphs
  /\ radius = NoRadius
  /\ IdleFile
  /\ IdleAnalyze
  /\ IdleReport

AddImporter(u, v) ==
  /\ Len(Dependents(graph, v)) < MaxImporters
  /\ graph' = WithImporter(graph, u, v)
  /\ radius' = NoRadius
  /\ pc' = "edgeAdded"
  /\ UNCHANGED <<filterVars, loadVars, gitVars>>
  /\ UNCHANGED <<configVars, fileVars, analyzeVars, reportVars>>

CalculateBlastRadius(f) ==
  /\ pc \in {"built", "edgeAdded"}
  /\ radius' = [computed |-> TRUE, file |-> f,
                value |-> calculateBlastRadius(graph, f),
                expanded |-> Expansions(graph, f)]
  /\ UNCHANGED <<filterVars, loadVars, gitVars>>
  /\ UNCHANGED <<pc, configVars, graph, fileVars, analyzeVars, reportVars>>

NextRadius ==
  \/ \E u \in GraphFiles, v \in GraphFiles : AddImporter(u, v)
  \/ \E f \in GraphFiles : CalculateBlastRadius(f)

SpecRadius == InitRadius /\ [][NextRadius]_vars

\* C6: adding u to the importedBy list of v never decreases the blast radius
\* of any file f.
C6_Monotonic ==
  [][\A f \in GraphFiles :
       calculateBlastRadius(graph', f) >= calculateBlastRadius(graph, f)]_vars

\* witness: after an edge was added, a file's radius exceeds the number of its
\* direct importers (the added edge is counted through a transitive importer)
C6_Witness ==
  /\ pc = "edgeAdded"
  /\ radius.computed
  /\ radius.value > Len(Dependents(graph, radius.file))

\* C7: a file whose node has an empty importedBy list, or that has no node,
\* has blast radius 0.
C7_ZeroWithoutImporters ==
  (radius.computed /\ Dependents(graph, radius.file) = <<>>) =>
    radius.value = 0

\* witness: radius 0 was computed both for a file without a node and for a
\* file whose node has no importers, in a graph that has importer edges
C7_Witness ==
  /\ radius.computed
  /\ radius.file \in DOMAIN graph
  /\ graph[radius.file].importedBy = <<>>
  /\ radius.value = 0
  /\ \E n \in DOMAIN graph : graph[n].importedBy # <<>>

(***************************************************************************)
(* Specification SpecFile: analyzeFile applied to every pair of file texts *)
(* over two export names, under two valid configurations.                  *)
(***************************************************************************)
MaxParams == 1

ParamTypes == {"string", "'a'"}
PropNames == <<"id", "name">>

FunctionDecls ==
  {FunctionDecl(r, ps) : r \in Types, ps \in SeqsUpTo(ParamTypes, MaxParams)}
\* every interface over the property names: each absent, required or optional
InterfaceProps(m) ==
  LET present == SelectSeq([i \in DOMAIN PropNames |-> i],
                           LAMBDA i : m[i] # "absent")
  IN [k \in DOMAIN present |->
        Prop(PropNames[present[k]], m[present[k]] = "optional")]
InterfaceDecls ==
  {InterfaceDecl(InterfaceProps(m)) :
     m \in [DOMAIN PropNames -> {"absent", "required", "optional"}]}

CodeTexts ==
  {Text("code", [foo |-> f, User |-> u]) :
     f \in FunctionDecls \cup {VariableDecl, Absent},
     u \in InterfaceDecls \cup {VariableDecl, Absent}}

\* a user configuration that raises every weight by one point and the
\* large-change percentage to 50, and lowers the risk thresholds to 10, 20
\* and 30
CustomConfig ==
  [DEFAULT_CONFIG EXCEPT
     !.riskWeights = [f \in RiskFactorType |-> Num(riskWeights[f] + 10)],
     !.thresholds = [mediumRisk |-> Num(10), highRisk |-> Num(20),
                     veryHighRisk |-> Num(30),
                     largeChangePercentage |-> Num(50)]]
ValidConfigs == {DEFAULT_CONFIG, CustomConfig}

InitFile ==
  /\ pc = "parsed"
  /\ IdleFilter
  /\ IdleLoad
  /\ IdleGit
  /\ config \in ValidConfigs
  /\ validation = "ok"
  /\ IdleGraph
  /\ oldText \in CodeTexts
  /\ newText \in CodeTexts
  /\ fileAnalysis = NoAnalysis
  /\ IdleAnalyze
  /\ IdleReport

AnalyzeFile ==
  /\ pc = "parsed"
  /\ fileAnalysis' = analyzeFile(newText, oldText, config)
  /\ pc' = "analyzed"
  /\ UNCHANGED <<filterVars, loadVars, gitVars>>
  /\ UNCHANGED <<configVars, graphVars, oldText, newText, analyzeVars,
                 reportVars>>

NextFile == AnalyzeFile

SpecFile == InitFile /\ [][NextFile]_vars

RisksOf(subject) ==
  SelectSeq(fileAnalysis.scores, LAMBDA r : r.subject = subject)

\* C8: analyzeFile on an old and a new version parsed from the same text
\* returns an empty risk list and fileScore 0.
C8_IdenticalTextNoRisk ==
  (pc = "analyzed" /\ oldText = newText) =>
    (fileAnalysis.scores = <<>> /\ fileAnalysis.fileScore = 0)

\* witness: an identical pair holding a function with a parameter and an
\* interface with an optional property was analyzed
C8_Witness ==
  /\ pc = "analyzed" /\ oldText = newText
  /\ newText.decls["foo"].kind = "FunctionDeclaration"
  /\ newText.decls["foo"].parameters # <<>>
  /\ newText.decls["User"].kind = "InterfaceDeclaration"
  /\ \E i \in DOMAIN newText.decls["User"].properties :
       newText.decls["User"].properties[i].optional
  /\ fileAnalysis.scores = <<>>

\* the interface User differs between the versions only in that exactly one
\* property went from optional to required; everything else is the same
OneOptionalNowRequired ==
  LET o == oldText.decls["User"]
      n == newText.decls["User"]
  IN /\ oldText.decls["foo"] = newText.decls["foo"]
     /\ o.kind = "InterfaceDeclaration" /\ n.kind = "InterfaceDeclaration"
     /\ Len(o.properties) = Len(n.properties)
     /\ \A i \in DOMAIN o.properties : o.properties[i].name = n.properties[i].name
     /\ Cardinality({i \in DOMAIN o.properties :
                       o.properties[i].optional # n.properties[i].optional}) = 1
     /\ \E i \in DOMAIN o.properties :
          o.properties[i].optional /\ ~n.properties[i].optional

\* C9: when one property of an otherwise unchanged exported interface goes
\* from optional to required, analyzeFile returns exactly one risk, of factor
\* PropsChanged, with the configured PropsChanged weight as points.
C9_OptionalToRequired ==
  (pc = "analyzed" /\ OneOptionalNowRequired) =>
    fileAnalysis.scores =
      <<[subject |-> "User", factor |-> "PropsChanged",
         points |-> config.riskWeights["PropsChanged"].num]>>

\* witness: the case of the text, { id; name? } to { id; name }, analyzed under
\* the custom weights
C9_Witness ==
  /\ pc = "analyzed" /\ OneOptionalNowRequired
  /\ config = CustomConfig
  /\ oldText.decls["User"].properties = <<Prop("id", FALSE), Prop("name", TRUE)>>
  /\ newText.decls["User"].properties = <<Prop("id", FALSE), Prop("name", FALSE)>>
  /\ Len(fileAnalysis.scores) = 1

\* foo is a function in both versions, with the same parameters and a
\* different return type
ReturnTypeChangedOnly ==
  LET o == oldText.decls["foo"]
      n == newText.decls["foo"]
  IN /\ o.kind = "FunctionDeclaration" /\ n.kind = "FunctionDeclaration"
     /\ o.parameters = n.parameters
     /\ o.returnType # n.returnType

\* C10: when an exported function keeps its parameters and its return type
\* changes from T to T', analyzeFile returns exactly one ReturnTypeChanged
\* risk for it if T is not assignable to T' and T' is assignable to T, and no
\* risk for it otherwise.
C10_ReturnTypeNarrowing ==
  (pc = "analyzed" /\ ReturnTypeChangedOnly) =>
    LET T == oldText.decls["foo"].returnType
        Tn == newText.decls["foo"].returnType
    IN RisksOf("foo") =
         IF ~isTypeAssignableTo(T, Tn) /\ isTypeAssignableTo(Tn, T)
           THEN <<[subject |-> "foo", factor |-> "ReturnTypeChanged",
                   points |-> config.riskWeights["ReturnTypeChanged"].num]>>
           ELSE <<>>

\* witness: string narrowed to the literal 'a' gave the one risk
C10_Witness ==
  /\ pc = "analyzed" /\ ReturnTypeChangedOnly
  /\ oldText.decls["foo"].returnType = "string"
  /\ newText.decls["foo"].returnType = "'a'"
  /\ oldText.decls["foo"].parameters # <<>>
  /\ Len(RisksOf("foo")) = 1

(***************************************************************************)
(* Specification SpecAnalyze: analyzeBreakingChanges applied to change     *)
(* lists of up to MaxFiles files, with every status and with content that  *)
(* is missing, empty, unchanged or changed.                                *)
(***************************************************************************)
MaxFiles == 2

SrcA == Path(<<"src">>, <<"a", "ts">>)
SrcB == Path(<<"src", "lib">>, <<"b", "ts">>)
\* src/Test/c.ts: no test file for isTestFile, matched by **/test/**
TestLike == Path(<<"src", "Test">>, <<"c", "ts">>)
\* src/a.test.ts: a test file for isTestFile
RealTest == Path(<<"src">>, <<"a", "test", "ts">>)
Readme == Path(<<>>, <<"README", "md">>)
RenamedFrom == Path(<<"src">>, <<"old", "ts">>)

TextV1 ==
  Text("code", [foo |-> FunctionDecl("string", <<>>),
                User |-> InterfaceDecl(<<Prop("id", FALSE), Prop("name", TRUE)>>)])
\* foo is no longer exported, name is required
TextV2 ==
  Text("code", [foo |-> Absent,
                User |-> InterfaceDecl(<<Prop("id", FALSE), Prop("name", FALSE)>>)])
Skipped == Text("Skipped", NoDecls)
Blank == Text("", NoDecls)
Spaces == Text(" ", NoDecls)

Content(old, new) == [old |-> old, new |-> new]
(***************************************************************************)
(* services/GitService.ts: the content of a file at the base revision and  *)
(* in the working tree                                                     *)
(***************************************************************************)
GitFileContent(content, success) == [content |-> content, success |-> success]

\* the outcome of `git show ref:path` (exit status and output) and of
\* fs.readFileSync (an exception or the text)
ShowResult(status, stdout) == [status |-> status, stdout |-> stdout]
ReadResult(throws, content) == [throws |-> throws, content |-> content]

getFileFromGit(result) ==
  IF result.status # 0
    THEN GitFileContent(Skipped, FALSE)
    ELSE GitFileContent(result.stdout, TRUE)

\* mutant: a failed read hands out the empty text
getCurrentFileContent_EmptyOnFailure(read) ==
  IF read.throws
    THEN GitFileContent(Blank, FALSE)
    ELSE GitFileContent(read.content, TRUE)

getCurrentFileContent(read) ==
  IF read.throws
    THEN GitFileContent(Skipped, FALSE)
    ELSE GitFileContent(read.content, TRUE)

\* getOldCode and getNewCode of runCLI: the content field of the result
ProviderFrom(results) ==
  [p \in DOMAIN results |->
     [old |-> results[p].old.content, new |-> results[p].new.content]]

\* the outcomes behind a text of ContentPairs: the sentinel stands for a
\* failure or for a file whose text is the word Skipped, any other text for
\* a success
ShowResultsFor(text) ==
  IF text = Skipped
    THEN {ShowResult(128, Blank), ShowResult(0, Skipped)}
    ELSE {ShowResult(0, text)}
ReadResultsFor(text) ==
  IF text = Skipped
    THEN {ReadResult(TRUE, Blank), ReadResult(FALSE, Skipped)}
    ELSE {ReadResult(FALSE, text)}

\* what GitService returns for a path whose contents are the pair c
RetrievalsFor(c) ==
  {[old |-> getFileFromGit(o), new |-> getCurrentFileContent(n)] :
     o \in ShowResultsFor(c.old), n \in ReadResultsFor(c.new)}

ContentPairs ==
  {Content(Skipped, TextV1), Content(TextV1, Skipped), Content(Blank, TextV1),
   Content(TextV1, Spaces), Content(TextV1, TextV1), Content(TextV1, TextV2)}

Statuses == {"A", "D", "M", "R", "U"}
Change(path, status) ==
  FileChange(path, status, IF status = "R" THEN RenamedFrom ELSE NoPath)

ChangeEntries ==
  {[file |-> Change(p, st), content |-> c] :
     p \in {SrcA, SrcB}, st \in Statuses, c \in ContentPairs}
  \cup {[file |-> Change(p, st), content |-> Content(TextV1, TextV1)] :
          p \in {TestLike, RealTest, Readme}, st \in {"M", "D"}}

\* the lists of entries in which no path occurs twice
ChangeLists ==
  {l \in SeqsUpTo(ChangeEntries, MaxFiles) :
     \A i \in DOMAIN l, j \in DOMAIN l : l[i].file.path = l[j].file.path => i = j}

\* no test file; a test file that isTestFile recognises; a file that the
\* test-file filter accepts, with and without an export name in its text
Projects ==
  {<<SourceFile(Resolve(SrcA), TextV1, <<>>, {"foo", "User"})>>,
   <<SourceFile(Resolve(SrcA), TextV1, <<>>, {"foo", "User"}),
     SourceFile(Resolve(RealTest), Text("code", NoDecls), <<>>, {"foo", "(file)"})>>,
   <<SourceFile(Resolve(SrcA), TextV1, <<>>, {"foo", "User"}),
     SourceFile(Resolve(TestLike), Text("code", NoDecls), <<>>, {"User", "(file)"})>>,
   <<SourceFile(Resolve(SrcA), TextV1, <<>>, {"foo", "User"}),
     SourceFile(Resolve(TestLike), Text("code", NoDecls), <<>>, {"(file)"})>>}

\* the change list of a list of entries, and the results GitService can
\* return for its paths
ChangesOf(l) == [i \in DOMAIN l |-> l[i].file]
ContentOf(l, p) ==
  (CHOOSE e \in {l[i] : i \in DOMAIN l} : e.file.path = p).content
RetrievedFor(l) ==
  LET paths == {l[i].file.path : i \in DOMAIN l}
  IN {f \in [paths -> UNION {RetrievalsFor(ContentOf(l, p)) : p \in paths}] :
        \A p \in paths : f[p] \in RetrievalsFor(ContentOf(l, p))}

InitAnalyze ==
  /\ pc = "ready"
  /\ IdleFilter
  /\ IdleLoad
  /\ IdleGit
  /\ config \in ValidConfigs
  /\ validation = "ok"
  /\ IdleGraph
  /\ IdleFile
  /\ project \in Projects
  /\ \E l \in ChangeLists :
       /\ changes = ChangesOf(l)
       /\ retrieved \in RetrievedFor(l)
  /\ provider = ProviderFrom(retrieved)
  /\ options \in [includeTests : BOOLEAN]
  /\ breakingChanges = NoResult
  /\ IdleReport

AnalyzeBreakingChanges ==
  /\ pc \in {"ready", "built"}
  /\ breakingChanges' =
       analyzeBreakingChanges(changes, project, provider, options, config)
  /\ pc' = IF breakingChanges'.threw THEN "threw" ELSE "analyzed"
  /\ UNCHANGED <<filterVars, loadVars, gitVars>>
  /\ UNCHANGED <<configVars, graphVars, fileVars, project, changes, provider,
                 options, retrieved, reportVars>>

NextAnalyze == AnalyzeBreakingChanges

SpecAnalyze == InitAnalyze /\ [][NextAnalyze]_vars

\* the change is analysed at all: a supported source file, no test file
IsAnalyzable(filePath) ==
  /\ ~shouldInclude(createTestFileFilter, filePath)
  /\ shouldInclude(createSourceFileFilter, filePath)

\* C1: every change with status Deleted yields exactly one FileRemoved risk
\* for its file and no risk from symbol diffing, whatever the content
\* provider returns for it (the failure sentinel and empty text included).
C1_DeletedYieldsFileRemoved ==
  pc = "analyzed" =>
    \A i \in DOMAIN changes :
      (changes[i].status = "D" /\ IsAnalyzable(changes[i].path)) =>
        /\ HasEntry(breakingChanges.scores, changes[i].path)
        /\ EntryOf(breakingChanges.scores, changes[i].path).scores =
             <<Risk(changes[i].path, "FileRemoved", config)>>

(***************************************************************************)
(* The steps of runCLI, in the order in which runCLI takes them.           *)
(***************************************************************************)
\* p.includes("node_modules"): a segment that is node_modules
IncludesNodeModules(filePath) ==
  \/ \E i \in DOMAIN filePath.dirs : filePath.dirs[i] = "node_modules"
  \/ \E k \in DOMAIN filePath.name : filePath.name[k] = "node_modules"

\* the filter runCLI applies to the project's files and to the changed files
CliFilter(filePath) == ~IncludesNodeModules(filePath) /\ ~isTestFile(filePath)

\* the changed paths as git lists them, and the filter of runCLI on them;
\* runCLI exits with code 0 when no path is left
CollectChangedFiles ==
  /\ pc = "started"
  /\ changedFiles' =
       SelectSeq([i \in DOMAIN changes |-> changes[i].path], CliFilter)
  /\ pc' = IF Len(changedFiles') = 0 THEN "exited" ELSE "collected"
  /\ UNCHANGED <<filterVars, loadVars, gitVars>>
  /\ UNCHANGED <<configVars, graphVars, fileVars, analyzeVars, lineStats,
                 graphScore, report>>

BuildUsageGraph ==
  /\ pc = "collected"
  /\ graph' = buildUsageGraph(project,
                SelectSeq([i \in DOMAIN project |-> project[i].path], CliFilter))
  /\ pc' = "built"
  /\ UNCHANGED <<filterVars, loadVars, gitVars>>
  /\ UNCHANGED <<configVars, radius, fileVars, analyzeVars, reportVars>>

CalculateGraphScore ==
  /\ pc = "analyzed"
  /\ graphScore' = calculateGraphScore(graph, changedFiles)
  /\ pc' = "scored"
  /\ UNCHANGED <<filterVars, loadVars, gitVars>>
  /\ UNCHANGED <<configVars, graphVars, fileVars, analyzeVars, changedFiles,
                 lineStats, report>>

GenerateReport ==
  /\ pc = "scored"
  /\ report' = generateReport(
                 [totalRiskScore |->
                    breakingChanges.totalScore + graphScore.totalScore,
                  breakingChanges |-> breakingChanges,
                  graphScore |-> graphScore,
                  lineStats |-> lineStats])
  /\ pc' = "reported"
  /\ UNCHANGED <<filterVars, loadVars, gitVars>>
  /\ UNCHANGED <<configVars, graphVars, fileVars, analyzeVars, changedFiles,
                 lineStats, graphScore>>

NextPipeline ==
  \/ CollectChangedFiles
  \/ BuildUsageGraph
  \/ AnalyzeBreakingChanges
  \/ CalculateGraphScore
  \/ GenerateReport

FileStats(added, removed, totalLines) ==
  [added |-> added, removed |-> removed, totalLines |-> totalLines]
\* no statistics; 2 of 10 lines (20%); 3 of 10 lines
LineStatsOf(file) ==
  {<<>>, [p \in {file} |-> FileStats(1, 1, 10)],
   [p \in {file} |-> FileStats(3, 0, 10)]}

AbsA == Resolve(SrcA)
AbsB == Resolve(FileB)
AbsC == Resolve(FileC)
ImportOf(target) == ImportDecl("literal", target, <<"foo">>)
NonLiteralImport == ImportDecl("nonliteral", NoPath, <<>>)
ThrowingImport == ImportDecl("throws", NoPath, <<>>)
EmptyImport == ImportDecl("empty", NoPath, <<>>)
PackageImport == ImportDecl("literal", NoPath, <<"x">>)
\* a.ts without the export foo
TextNoFoo == [TextV1 EXCEPT !.decls["foo"] = Absent]

(***************************************************************************)
(* Specification SpecGraph: the steps of the pipeline on projects of three *)
(* files with every combination of imports, with a validated               *)
(* configuration handed to analyzeBreakingChanges.                         *)
(***************************************************************************)
MaxImports == 2

GraphProjects ==
  {<<SourceFile(AbsA, TextV1, ia, {}),
     SourceFile(AbsB, Text("code", NoDecls), ib, {}),
     SourceFile(AbsC, Text("code", NoDecls), ic, {})>> :
     ia \in {<<>>, <<NonLiteralImport>>, <<ThrowingImport>>, <<EmptyImport>>,
             <<PackageImport>>, <<ImportOf(AbsB)>>},
     ib \in SeqsUpTo({ImportOf(AbsA), ImportOf(AbsC), NonLiteralImport},
                     MaxImports),
     ic \in {<<>>, <<ImportOf(AbsA)>>, <<ImportOf(AbsA), ImportOf(AbsA)>>,
             <<ImportOf(AbsB)>>}}

GraphChangeLists ==
  {<<[file |-> Change(SrcA, "M"), content |-> Content(TextV1, TextNoFoo)]>>,
   <<[file |-> Change(SrcA, "A"), content |-> Content(TextV1, TextV2)]>>,
   <<[file |-> Change(FileB, "M"), content |-> Content(TextV1, TextV1)],
     [file |-> Change(SrcA, "M"), content |-> Content(TextV1, TextV1)]>>}

InitGraph ==
  /\ pc = "started"
  /\ IdleFilter
  /\ IdleLoad
  /\ IdleGit
  /\ config \in ValidConfigs
  /\ validation = "ok"
  /\ IdleGraph
  /\ IdleFile
  /\ project \in GraphProjects
  /\ \E l \in GraphChangeLists :
       changes = ChangesOf(l) /\ retrieved \in RetrievedFor(l)
  /\ provider = ProviderFrom(retrieved)
  /\ options = [includeTests |-> TRUE]
  /\ breakingChanges = NoResult
  /\ changedFiles = <<>>
  /\ lineStats \in LineStatsOf(SrcA)
  /\ graphScore = NoGraphScore
  /\ report = NoReport

NextGraph ==
  \/ NextPipeline
  \/ \E f \in {AbsA, AbsB, AbsC} : CalculateBlastRadius(f)

SpecGraph == InitGraph /\ [][NextGraph]_vars

\* a.ts exports foo and is imported by exactly b.ts and c.ts, nothing imports
\* b.ts or c.ts; the new content of a.ts no longer exports foo
C5Project ==
  <<SourceFile(AbsA, TextV1, <<>>, {}),
    SourceFile(AbsB, Text("code", NoDecls), <<ImportOf(AbsA)>>, {}),
    SourceFile(AbsC, Text("code", NoDecls), <<ImportOf(AbsA)>>, {})>>
C5Scenario ==
  /\ project = C5Project
  /\ changes = <<Change(SrcA, "M")>>
  /\ provider[SrcA] = Content(TextV1, TextNoFoo)

FactorCount(risks, factor) ==
  Cardinality({k \in DOMAIN risks : risks[k].factor = factor})

\* C5: in the repository where a.ts exports foo and exactly b.ts and c.ts
\* import it, the built graph gives a.ts the blast radius 2, and when the new
\* a.ts no longer exports foo the results for a.ts hold one ExportRemoved risk
\* and the graph's ImportedInFiles risk.
C5_EndToEnd ==
  (pc = "scored" /\ C5Scenario) =>
    /\ calculateBlastRadius(graph, AbsA) = 2
    /\ HasEntry(breakingChanges.scores, SrcA)
    /\ FactorCount(EntryOf(breakingChanges.scores, SrcA).scores,
                   "ExportRemoved") = 1
    /\ \E k \in DOMAIN graphScore.graphScore :
         /\ graphScore.graphScore[k].subject = SrcA
         /\ graphScore.graphScore[k].factor = "ImportedInFiles"

(***************************************************************************)
(* Specification SpecCLI: runCLI.  No configuration is loaded, and         *)
(* analyzeBreakingChanges is called without its config argument.           *)
(***************************************************************************)
CliProjects ==
  {<<SourceFile(AbsA, TextV1, ia, {}),
     SourceFile(AbsB, Text("code", NoDecls), ib, {})>> :
     ia \in {<<>>, <<NonLiteralImport>>, <<ThrowingImport>>},
     ib \in {<<>>, <<ImportOf(AbsA)>>}}

CliChangeEntries ==
  {[file |-> Change(p, st), content |-> c] :
     p \in {SrcA, FileB}, st \in {"M", "D", "A"},
     c \in {Content(TextV1, Skipped), Content(TextV1, TextV1),
            Content(TextV1, TextV2)}}
  \cup {[file |-> Change(p, "M"), content |-> Content(TextV1, TextV1)] :
          p \in {RealTest, Readme}}

CliChangeLists ==
  {l \in SeqsUpTo(CliChangeEntries, MaxFiles) :
     \A i \in DOMAIN l, j \in DOMAIN l : l[i].file.path = l[j].file.path => i = j}

InitCLI ==
  /\ pc = "started"
  /\ IdleFilter
  /\ IdleLoad
  /\ IdleGit
  /\ config = Undefined
  /\ validation = "none"
  /\ IdleGraph
  /\ IdleFile
  /\ project \in CliProjects
  /\ \E l \in CliChangeLists :
       changes = ChangesOf(l) /\ retrieved \in RetrievedFor(l)
  /\ provider = ProviderFrom(retrieved)
  /\ options \in [includeTests : BOOLEAN]
  /\ breakingChanges = NoResult
  /\ changedFiles = <<>>
  /\ lineStats \in LineStatsOf(SrcA)
  /\ graphScore = NoGraphScore
  /\ report = NoReport

NextCLI == NextPipeline

SpecCLI == InitCLI /\ [][NextCLI]_vars

RECURSIVE SumFinalScores(_)
SumFinalScores(files) ==
  IF files = <<>> THEN 0
  ELSE Head(files).finalScore + SumFinalScores(Tail(files))

\* C2: the totalRiskScore handed to the report equals the sum, over the files
\* of the report, of the score shown for the file (the points of its risks
\* plus the LargeChange points when the change is large).
C2_TotalIsSumOfFileScores ==
  report.generated => report.totalRiskScore = SumFinalScores(report.files)

\* C4: the configuration is loaded and validated before the usage graph is
\* built and before any file is analyzed or scored.
C4_ConfigBeforeAnalysis ==
  pc \in {"built", "analyzed", "threw", "scored", "reported"} =>
    (validation = "ok" /\ config # Undefined)

(***************************************************************************)
(* Properties of the graph returned by buildUsageGraph                     *)
(***************************************************************************)
\* buildUsageGraph has returned in this run
GraphBuilt == pc \in {"built", "analyzed", "threw", "scored", "reported"}

NoDuplicates(seq) ==
  \A i \in DOMAIN seq, j \in DOMAIN seq : seq[i] = seq[j] => i = j
Range(seq) == {seq[i] : i \in DOMAIN seq}

\* the files of the project, other than n, that hold an import with a string
\* literal specifier that refers to n
ImportersOf(proj, n) ==
  {proj[i].path : i \in {j \in DOMAIN proj :
      /\ proj[j].path # n
      /\ \E k \in DOMAIN proj[j].imports :
           /\ proj[j].imports[k].kind = "literal"
           /\ proj[j].imports[k].target = n}}

\* C11: in the graph returned by buildUsageGraph, importedBy(n) of every node
\* n has no duplicates and is exactly the set of files other than n that hold
\* a resolved import of n.
C11_ImportedByExact ==
  GraphBuilt =>
    \A n \in DOMAIN graph :
      /\ NoDuplicates(graph[n].importedBy)
      /\ Range(graph[n].importedBy) = ImportersOf(project, n)

(***************************************************************************)
(* Properties of the skip buckets of analyzeBreakingChanges                *)
(***************************************************************************)
\* a test, tests, __tests__ or __mocks__ segment, or a .test. / .spec.
\* suffix, with a supported extension
IsRecognizedTestFile(filePath) ==
  isTestFile(filePath) /\ hasSupportedExtension(createTestFileFilter, filePath)

\* C12: every changed file that is a recognized test file is recorded in
\* skippedFiles.tests, in no other bucket, and has no entry in scores.
C12_TestFilesInTestsBucket ==
  pc = "analyzed" =>
    \A i \in DOMAIN changes :
      IsRecognizedTestFile(changes[i].path) =>
        /\ Includes(breakingChanges.skippedFiles.tests, changes[i].path)
        /\ ~Includes(breakingChanges.skippedFiles.unsupported, changes[i].path)
        /\ ~Includes(breakingChanges.skippedFiles.failed, changes[i].path)
        /\ ~Includes(breakingChanges.skippedFiles.empty, changes[i].path)
        /\ ~HasEntry(breakingChanges.scores, changes[i].path)

\* the content of a changed file is fetched when the file passed the filters;
\* its retrieval failed when GitService reported no success for either side
RetrievalFailed(filePath) ==
  /\ IsAnalyzable(filePath)
  /\ ~retrieved[filePath].old.success \/ ~retrieved[filePath].new.success

\* the result for the change list without the files whose retrieval failed
ResultWithoutFailed ==
  analyzeBreakingChanges(
    SelectSeq(changes, LAMBDA c : ~RetrievalFailed(c.path)),
    project, provider, options, config)

\* C13: a failed retrieval reaches analyzeBreakingChanges as the sentinel
\* value and not as an exception; the file is recorded in skippedFiles.failed
\* and gets no score, and the other files of the list are processed as they
\* are without it.
C13_FailedRetrievalSkipped ==
  pc # "ready" =>
    /\ pc = "analyzed"
    /\ \A i \in DOMAIN changes :
         RetrievalFailed(changes[i].path) =>
           /\ Includes(breakingChanges.skippedFiles.failed, changes[i].path)
           /\ ~Includes(breakingChanges.skippedFiles.unsupported, changes[i].path)
           /\ ~Includes(breakingChanges.skippedFiles.empty, changes[i].path)
           /\ ~Includes(breakingChanges.skippedFiles.tests, changes[i].path)
           /\ ~HasEntry(breakingChanges.scores, changes[i].path)
    /\ breakingChanges.scores = ResultWithoutFailed.scores
    /\ breakingChanges.totalScore = ResultWithoutFailed.totalScore
    /\ breakingChanges.skippedFiles.unsupported
         = ResultWithoutFailed.skippedFiles.unsupported
    /\ breakingChanges.skippedFiles.empty = ResultWithoutFailed.skippedFiles.empty
    /\ breakingChanges.skippedFiles.tests = ResultWithoutFailed.skippedFiles.tests

\* witness: the read of the first file's working-tree content failed, and
\* the file after it was analysed and scored
C13_Witness ==
  /\ pc = "analyzed"
  /\ Len(changes) = 2
  /\ RetrievalFailed(changes[1].path)
  /\ retrieved[changes[1].path].old.success
  /\ breakingChanges.skippedFiles.failed = <<changes[1].path>>
  /\ HasEntry(breakingChanges.scores, changes[2].path)

(***************************************************************************)
(* Properties of the MissingTest risk                                      *)
(***************************************************************************)
\* the change reaches analyzeFile: it passed the filters, both contents were
\* handed out and are not empty, and the file was not deleted
IsDiffed(change) ==
  /\ IsAnalyzable(change.path)
  /\ provider[change.path].old.raw # "Skipped"
  /\ provider[change.path].new.raw # "Skipped"
  /\ Trim(provider[change.path].old) # ""
  /\ Trim(provider[change.path].new) # ""
  /\ change.status # "D"

\* the names checked against the test files for a change: its changed
\* exports, or the placeholder when there is none
CheckedNames(change) ==
  LET analysis == analyzeFile(provider[change.path].new,
                              provider[change.path].old, config)
  IN IF Len(analysis.changedExports) > 0
       THEN analysis.changedExports ELSE <<"(file)">>
UntestedNames(change) ==
  findUntestedChanges(CheckedNames(change), allTestFiles(project))

RisksOfFile(filePath) ==
  IF HasEntry(breakingChanges.scores, filePath)
    THEN EntryOf(breakingChanges.scores, filePath).scores ELSE <<>>

\* C14: with the test check enabled, the risk list of every analysed file
\* holds exactly one MissingTest risk when at least one of its checked names
\* is untested, however many are, and none otherwise.
C14_OneMissingTest ==
  (pc = "analyzed" /\ options.includeTests) =>
    \A i \in DOMAIN changes :
      IsDiffed(changes[i]) =>
        FactorCount(RisksOfFile(changes[i].path), "MissingTest")
          = IF Len(UntestedNames(changes[i])) > 0 THEN 1 ELSE 0

\* witness: one file with two untested names got one MissingTest risk while
\* another file of the same run, with no untested name, got none
C14_Witness ==
  /\ pc = "analyzed" /\ options.includeTests
  /\ \E i \in DOMAIN changes :
       /\ IsDiffed(changes[i])
       /\ Len(UntestedNames(changes[i])) = 2
       /\ FactorCount(RisksOfFile(changes[i].path), "MissingTest") = 1
  /\ \E i \in DOMAIN changes :
       /\ IsDiffed(changes[i])
       /\ Len(UntestedNames(changes[i])) = 0
       /\ FactorCount(RisksOfFile(changes[i].path), "MissingTest") = 0

(***************************************************************************)
(* Properties of the report                                                *)
(***************************************************************************)
\* totalLines > 0 and (added + removed) * 100 / totalLines exceeds the
\* configured percentage
ExceedsConfiguredPercentage(stats, cfg) ==
  /\ stats.totalLines > 0
  /\ (stats.added + stats.removed) * 100
       > cfg.thresholds.largeChangePercentage.num * stats.totalLines

\* C15: for every file of the report, the LargeChange risk is added to the
\* shown score, with the configured LargeChange weight as points, exactly
\* when the changed share of the file exceeds the configured
\* thresholds.largeChangePercentage.
C15_LargeChangeFromConfig ==
  report.generated =>
    \A k \in DOMAIN report.files :
      LET entry == report.files[k]
          large == ExceedsConfiguredPercentage(StatsOf(lineStats, entry.file),
                                               config)
          points == IF large THEN Weight(config, "LargeChange") ELSE 0
      IN /\ entry.finalScore = entry.total + points
         /\ FactorCount(entry.risks, "LargeChange") = (IF large THEN 1 ELSE 0)
         /\ \A j \in DOMAIN entry.risks :
              entry.risks[j].factor = "LargeChange" =>
                entry.risks[j].points = Weight(config, "LargeChange")

\* the level of a score in tenths of a point under the thresholds of the
\* configuration, which are in points
ConfiguredLevel(score, cfg) ==
  IF score >= 10 * cfg.thresholds.veryHighRisk.num THEN "Very High Risk"
  ELSE IF score >= 10 * cfg.thresholds.highRisk.num THEN "High Risk"
  ELSE IF score >= 10 * cfg.thresholds.mediumRisk.num THEN "Medium Risk"
  ELSE "Low Risk"

\* C16: the level shown for a score is low below mediumRisk, medium from
\* mediumRisk, high from highRisk and very high from veryHighRisk, with the
\* thresholds of the configuration.
C16_LevelFromConfig ==
  report.generated =>
    /\ report.level = ConfiguredLevel(report.totalRiskScore, config)
    /\ \A k \in DOMAIN report.files :
         report.files[k].level
           = ConfiguredLevel(report.files[k].finalScore, config)

(***************************************************************************)
(* utils/FileFilter.ts: a filter put to single paths                       *)
(***************************************************************************)
MaxDirs == 2

Segments == {"", "src", "node_modules", "node_modules_backup", "tests", "package"}
FileNames ==
  {<<"component", "ts">>, <<"component", "test", "ts">>, <<"unit", "js">>,
   <<"index", "js">>, <<"README", "md">>}

RECURSIVE DirsUpTo(_)
DirsUpTo(n) ==
  IF n = 0 THEN {<<>>}
  ELSE LET shorter == DirsUpTo(n - 1)
       IN shorter \cup {Append(d, s) : d \in shorter, s \in Segments}

CandidatePaths ==
  {RawPath(sep, dirs, name) :
     sep \in {"/", "\\"}, dirs \in DirsUpTo(MaxDirs), name \in FileNames}

Filters ==
  {createSourceFileFilter, createTestFileFilter, createChangedFileFilter,
   FileFilter(FALSE, TRUE, {})}

InitFilter ==
  /\ pc = "filter"
  /\ config = Undefined /\ validation = "none"
  /\ IdleLoad
  /\ IdleGit
  /\ IdleGraph /\ IdleFile /\ IdleAnalyze /\ IdleReport
  /\ fileFilter \in Filters
  /\ candidate \in CandidatePaths
  /\ verdict = NoVerdict

\* filter.shouldInclude(filePath) for a path written with "/", as git lists
\* the changed files and as the paths of the project's source files are
ShouldInclude ==
  /\ pc = "filter"
  /\ candidate.sep = "/"
  /\ verdict' = [method |-> "shouldInclude",
                 value |-> shouldInclude(fileFilter, Normalize(candidate))]
  /\ UNCHANGED <<pc, fileFilter, candidate, loadVars, gitVars>>
  /\ UNCHANGED <<configVars, graphVars, fileVars, analyzeVars, reportVars>>

\* filter.isInNodeModules(filePath): the path is normalised first
IsInNodeModules ==
  /\ pc = "filter"
  /\ verdict' = [method |-> "isInNodeModules",
                 value |-> isInNodeModules(fileFilter, Normalize(candidate))]
  /\ UNCHANGED <<pc, fileFilter, candidate, loadVars, gitVars>>
  /\ UNCHANGED <<configVars, graphVars, fileVars, analyzeVars, reportVars>>

NextFilter == ShouldInclude \/ IsInNodeModules
SpecFilter == InitFilter /\ [][NextFilter]_vars

HasNodeModulesSegment(raw) ==
  \E i \in DOMAIN raw.dirs : raw.dirs[i] = "node_modules"

\* C17: a filter from createTestFileFilter or createChangedFileFilter
\* (excludeTestFiles = false) answers true for a test file that has a
\* supported extension, lies outside node_modules and is not kept out by the
\* filter's include patterns, as src/component.test.ts.
C17_TestFilesNotRejected ==
  ( /\ verdict.method = "shouldInclude"
    /\ fileFilter \in {createTestFileFilter, createChangedFileFilter}
    /\ isTestFile(Normalize(candidate))
    /\ hasSupportedExtension(fileFilter, Normalize(candidate))
    /\ ~HasNodeModulesSegment(candidate)
    /\ matchesIncludePatterns(fileFilter, Normalize(candidate)) )
  => verdict.value

\* C18: with excludeNodeModules enabled, isInNodeModules answers true exactly
\* for the paths that have node_modules as a whole segment, at any position
\* and with either separator.
C18_NodeModulesSegment ==
  (verdict.method = "isInNodeModules" /\ fileFilter.excludeNodeModules)
  => (verdict.value <=> HasNodeModulesSegment(candidate))

(***************************************************************************)
(* Specification SpecLoad: loadConfig in working directories drawn from a  *)
(* bounded set of configuration files.                                     *)
(***************************************************************************)
NoThresholds ==
  [mediumRisk |-> Undefined, highRisk |-> Undefined, veryHighRisk |-> Undefined,
   largeChangePercentage |-> Undefined]
UserThresholds ==
  {Undefined, [NoThresholds EXCEPT !.highRisk = Num(70)],
   [NoThresholds EXCEPT !.mediumRisk = Num(90)]}
UserWeights == {Undefined, [f \in {"PropsChanged"} |-> Num(50)]}

ConfigObjects ==
  {JsObject(Undefined, t, w) : t \in UserThresholds, w \in UserWeights}
DiffuseValues ==
  {Undefined} \cup {JsObject(Undefined, t, Undefined) : t \in UserThresholds}
PackageObjects ==
  {JsObject(d, t, w) : d \in DiffuseValues, t \in UserThresholds, w \in UserWeights}

\* what the other configuration files hold when they exist
OtherConfig ==
  JsObject(Undefined, [NoThresholds EXCEPT !.veryHighRisk = Num(95)], Undefined)

PackageFiles ==
  {NoFile, ConfigFile(TRUE, FALSE, EmptyObject)}
    \cup {ConfigFile(TRUE, TRUE, o) : o \in PackageObjects}

WorkingDirectories ==
  {[p \in ConfigPaths |->
      IF p = "package.json" THEN pkg
      ELSE IF p \in present THEN ConfigFile(TRUE, TRUE, OtherConfig)
      ELSE NoFile] :
     pkg \in PackageFiles, present \in SUBSET (ConfigPaths \ {"package.json"})}

InitLoad ==
  /\ pc = "load"
  /\ config = Undefined /\ validation = "none"
  /\ configFiles \in WorkingDirectories
  /\ configPath \in {"", "package.json", "diffuse.config.json", "config.yaml"}
  /\ IdleFilter
  /\ IdleGit
  /\ IdleGraph /\ IdleFile /\ IdleAnalyze /\ IdleReport

LoadConfig ==
  /\ pc = "load"
  /\ LET result == loadConfig(configPath, configFiles)
     IN /\ config' = result.config
        /\ validation' = result.validation
        /\ pc' = IF result.validation = "ok" THEN "loaded" ELSE "threw"
  /\ UNCHANGED <<filterVars, loadVars, gitVars>>
  /\ UNCHANGED <<graphVars, fileVars, analyzeVars, reportVars>>

NextLoad == LoadConfig
SpecLoad == InitLoad /\ [][NextLoad]_vars

\* C19: when loadConfig takes the user configuration from package.json, the
\* outcome is the one of the value under the diffuse key (of an empty
\* configuration when the key is absent): no other top-level key of
\* package.json is read as a configuration field.
C19_OnlyDiffuseKey ==
  ( /\ pc \in {"loaded", "threw"}
    /\ ConfigSource(configPath, configFiles) = "package.json"
    /\ configFiles["package.json"].wellFormed )
  => LET expected ==
           ResolveAndValidate(DiffuseKey(configFiles["package.json"].object))
     IN config = expected.config /\ validation = expected.validation

(***************************************************************************)
(* Imports that buildUsageGraph cannot follow                              *)
(***************************************************************************)
\* the module specifier is no string literal, or refers to no file
Unresolvable(imp) ==
  \/ imp.kind \in {"nonliteral", "throws"}
  \/ imp.kind = "literal" /\ imp.target = NoPath
Resolvable(imp) == imp.kind = "literal" /\ imp.target # NoPath

\* the files of the project that buildUsageGraph is given and does not
\* filter out
ProcessedFiles ==
  {project[i].path : i \in
     {j \in DOMAIN project :
        /\ CliFilter(project[j].path)
        /\ shouldInclude(createSourceFileFilter, project[j].path)}}

\* C20: in the graph returned by buildUsageGraph every file given is a node;
\* a node that holds an import whose specifier is no string literal or
\* refers to no file is partial; such an import adds no import record and no
\* importedBy edge, and the other imports of the file still add theirs.
C20_UnresolvableImportsSkipped ==
  GraphBuilt =>
    \A f \in ProcessedFiles :
      /\ f \in DOMAIN graph
      /\ LET decls == ProjectSourceFile(project, f).imports
         IN /\ (\E k \in DOMAIN decls : Unresolvable(decls[k]))
                 => graph[f].isPartial
            /\ Len(graph[f].imports) = Len(SelectSeq(decls, Resolvable))
            /\ \A n \in DOMAIN graph :
                 Includes(graph[n].importedBy, f)
                   => \E k \in DOMAIN decls :
                        Resolvable(decls[k]) /\ decls[k].target = n

(***************************************************************************)
(* Specification SpecGit: getChangedFilesWithStatus over bounded answers   *)
(* of the git commands.                                                    *)
(***************************************************************************)
MaxLines == 2

DiffLines ==
  {DiffLine("R100", from, to) : from \in {RenamedFrom, FileC}, to \in {SrcA, SrcB}}
  \cup {DiffLine("R087", RenamedFrom, SrcA), DiffLine("M", SrcA, NoPath),
        DiffLine("A", SrcB, NoPath), DiffLine("D", SrcB, NoPath),
        DiffLine("T", SrcA, NoPath)}

\* the path a line is about: the new path of a rename
PathOfLine(line) == IF startsWithR(line.statusRaw) THEN line.part2 ELSE line.part1

\* git lists every path once
DiffOutputs ==
  {l \in SeqsUpTo(DiffLines, MaxLines) :
     \A i \in DOMAIN l, j \in DOMAIN l :
       PathOfLine(l[i]) = PathOfLine(l[j]) => i = j}

\* With a base ref the two diffs are over the same range, so the names are
\* the paths of the lines; without one the lines are those of the working
\* tree and the names those of origin/main...HEAD.  A command that fails
\* prints nothing.  An untracked file is no path of the diff.
GitStates ==
  {GitAnswers(given, 0, lines, inBase, inTree, 0,
              {PathOfLine(lines[i]) : i \in DOMAIN lines}, us[1], us[2]) :
     given \in {TRUE}, lines \in DiffOutputs,
     inBase \in SUBSET {RenamedFrom, FileC}, inTree \in SUBSET {SrcA, SrcB},
     us \in {<<0, <<>>>>, <<0, <<Readme>>>>, <<1, <<>>>>}}
  \cup
  {GitAnswers(FALSE, 0, lines, inBase, inTree, rs[1], rs[2], us[1], us[2]) :
     lines \in DiffOutputs,
     inBase \in SUBSET {RenamedFrom, FileC}, inTree \in SUBSET {SrcA, SrcB},
     rs \in {<<128, {}>>} \cup {<<0, n>> : n \in SUBSET {RenamedFrom, SrcA, SrcB}},
     us \in {<<0, <<>>>>, <<0, <<Readme>>>>, <<1, <<>>>>}}
  \cup
  {GitAnswers(given, 128, <<>>, {}, {}, 128, {}, 0, <<>>) : given \in BOOLEAN}

InitGit ==
  /\ pc = "git"
  /\ config = Undefined /\ validation = "none"
  /\ IdleLoad
  /\ IdleFilter
  /\ IdleGraph /\ IdleFile /\ IdleAnalyze /\ IdleReport
  /\ git \in GitStates
  /\ gitChanges = NotReturned

GetChangedFilesWithStatus ==
  /\ pc = "git"
  /\ gitChanges' = [returned |-> TRUE, changes |-> getChangedFilesWithStatus(git)]
  /\ pc' = "listed"
  /\ UNCHANGED <<git, filterVars, loadVars>>
  /\ UNCHANGED <<configVars, graphVars, fileVars, analyzeVars, reportVars>>

NextGit == GetChangedFilesWithStatus
SpecGit == InitGit /\ [][NextGit]_vars

\* the old path is not in the base revision and the new path is not in the
\* working tree
PhantomRename(line) ==
  line.part1 \notin git.inBase /\ line.part2 \notin git.inTree
\* neither path is among the names of the diff range
UntouchedRename(line) ==
  line.part1 \notin git.rangeNames /\ line.part2 \notin git.rangeNames
RenameLines ==
  {git.diffLines[i] : i \in {j \in DOMAIN git.diffLines :
                               startsWithR(git.diffLines[j].statusRaw)}}
ListedPath(path) ==
  \E j \in DOMAIN gitChanges.changes : gitChanges.changes[j].path = path
ReturnedAsRename(line) ==
  \E j \in DOMAIN gitChanges.changes :
    gitChanges.changes[j] = FileChange(line.part2, "R", line.part1)

RECURSIVE ReachableFrom(_, _)
ReachableFrom(g, S) ==
  LET next == S \cup UNION {Range(Dependents(g, n)) : n \in S}
  IN IF next = S THEN S ELSE ReachableFrom(g, next)

RECURSIVE SumOfImportedBy(_, _)
SumOfImportedBy(g, S) ==
  IF S = {} THEN 0
  ELSE LET n == CHOOSE x \in S : TRUE
       IN Len(Dependents(g, n)) + SumOfImportedBy(g, S \ {n})

\* a file that imports, directly or not, a file that it is imported by
OnCycle(g, f) ==
  \E d \in Range(Dependents(g, f)) : f \in ReachableFrom(g, {d})

\* C22: calculateBlastRadius returns, for every graph (cycles included), the
\* sum of the importedBy counts of exactly the files reachable from the start
\* file through importedBy edges, the start file included, and counts the
\* dependents of each of these files once.
C22_SumOverReachable ==
  radius.computed =>
    LET reachable == ReachableFrom(graph, {radius.file})
    IN /\ radius.value = SumOfImportedBy(graph, reachable)
       /\ NoDuplicates(radius.expanded)
       /\ Range(radius.expanded) = reachable

\* C22 witness: a radius computed for a file on an import cycle in which all
\* three files are expanded and the importedBy counts add up to more than
\* the number of files
C22_Witness ==
  /\ radius.computed
  /\ OnCycle(graph, radius.file)
  /\ Len(radius.expanded) = 3
  /\ radius.value > 3

(***************************************************************************)
(* The risks produced for a file during a run                              *)
(***************************************************************************)
ScoresIn(result, filePath) ==
  IF HasEntry(result.scores, filePath)
    THEN EntryOf(result.scores, filePath).scores ELSE <<>>

\* the FileAdded or FileRenamed risk that lines 93-123 make for the change
FileLevelRisks(change) ==
  ScoresIn(FlagStatus(EmptyResult, change, config), change.path)
\* the risks that analyzeFile finds for the change
StructuralRisks(change) ==
  analyzeFile(provider[change.path].new, provider[change.path].old, config).scores
\* the MissingTest risk that lines 149-179 make for the change
TestRisks(change) ==
  ScoresIn(AddMissingTest(EmptyResult, change,
             analyzeFile(provider[change.path].new, provider[change.path].old,
                         config),
             config, options, allTestFiles(project)),
           change.path)

\* every risk that analyzeBreakingChanges made for the change, in the order
\* in which it made them
ProducedByAnalysis(change) ==
  IF IsDiffed(change)
    THEN FileLevelRisks(change) \o StructuralRisks(change) \o TestRisks(change)
  ELSE IF IsDiffed([change EXCEPT !.status = "M"])
    THEN <<Risk(change.path, "FileRemoved", config)>>
  ELSE <<>>
\* every risk that calculateGraphScore made for the file
ProducedByGraph(filePath) ==
  SelectSeq(graphScore.graphScore, LAMBDA r : r.subject = filePath)

ReportedTotals(filePath) ==
  {report.files[i].total : i \in {j \in DOMAIN report.files :
                                    report.files[j].file = filePath}}

\* C23: in a generated report the total of every changed file is the sum of
\* the points of all risks that the breaking-change analysis and the graph
\* scoring produced for the file during the run.
C23_TotalIsSumOfProduced ==
  (pc = "reported" /\ report.generated) =>
    \A i \in DOMAIN changes :
      LET produced == ProducedByAnalysis(changes[i])
                        \o ProducedByGraph(changes[i].path)
      IN produced # <<>> =>
           ReportedTotals(changes[i].path) = {SumPoints(produced)}

\* C24: an added, untracked or renamed file whose old and new content are
\* both available and not empty is still diffed, and its returned risk list
\* holds the file-level risk (FileAdded or FileRenamed) together with every
\* structural risk that the diffing found.
C24_FileLevelRiskKept ==
  pc = "analyzed" =>
    \A i \in DOMAIN changes :
      ( /\ IsDiffed(changes[i])
        /\ \/ changes[i].status \in {"A", "U"}
           \/ changes[i].status = "R" /\ changes[i].renamedFrom # NoPath )
      => /\ \A k \in DOMAIN FileLevelRisks(changes[i]) :
              Includes(RisksOfFile(changes[i].path), FileLevelRisks(changes[i])[k])
         /\ \A k \in DOMAIN StructuralRisks(changes[i]) :
              Includes(RisksOfFile(changes[i].path), StructuralRisks(changes[i])[k])

RECURSIVE SumOfScoresMap(_)
SumOfScoresMap(scores) ==
  IF scores = <<>> THEN 0
  ELSE SumPoints(Head(scores).scores) + SumOfScoresMap(Tail(scores))

\* C28: after analyzeBreakingChanges has returned, totalScore is the sum of
\* the points of all risks in the returned scores map.
C28_TotalScoreIsSumOfScores ==
  pc = "analyzed" =>
    breakingChanges.totalScore = SumOfScoresMap(breakingChanges.scores)

(***************************************************************************)
(* Properties added to an exported interface                               *)
(***************************************************************************)
\* User is an interface in both versions; every old property is in the new
\* one with the same optionality, the new one has a property more, and foo
\* is unchanged
OnlyPropertyAdded ==
  LET o == oldText.decls["User"]
      n == newText.decls["User"]
  IN /\ o.kind = "InterfaceDeclaration" /\ n.kind = "InterfaceDeclaration"
     /\ \A i \in DOMAIN o.properties :
          \E j \in DOMAIN n.properties : n.properties[j] = o.properties[i]
     /\ Len(n.properties) > Len(o.properties)
     /\ oldText.decls["foo"] = newText.decls["foo"]

\* C25: when an exported interface present in both versions gains a property
\* and nothing else changes, analyzeFile returns no scored risk and the
\* fileScore 0.
C25_AddedPropertyNotScored ==
  (pc = "analyzed" /\ OnlyPropertyAdded) =>
    fileAnalysis.scores = <<>> /\ fileAnalysis.fileScore = 0

(***************************************************************************)
(* The test corpus                                                         *)
(***************************************************************************)
\* the recognized test files of the project
RecognizedTestFiles ==
  SelectSeq(project, LAMBDA f : IsRecognizedTestFile(f.path))
\* the checked names of a change that occur in the text of no recognized
\* test file
AbsentFromTestCorpus(change) ==
  SelectSeq(CheckedNames(change),
            LAMBDA name : \A i \in DOMAIN RecognizedTestFiles :
                             name \notin RecognizedTestFiles[i].mentions)

\* C26: for every analysed file, the names reported untested are exactly the
\* changed names that do not occur in the text of the recognized test files
\* of the project; the file carries a MissingTest risk exactly when there is
\* such a name.
C26_UntestedIffAbsentFromCorpus ==
  (pc = "analyzed" /\ options.includeTests) =>
    \A i \in DOMAIN changes :
      IsDiffed(changes[i]) =>
        /\ UntestedNames(changes[i]) = AbsentFromTestCorpus(changes[i])
        /\ FactorCount(RisksOfFile(changes[i].path), "MissingTest") > 0
             <=> AbsentFromTestCorpus(changes[i]) # <<>>

(***************************************************************************)
(* Subsystem tags                                                          *)
(***************************************************************************)
\* the tags inferred from the paths of the files in importedBy(n)
TagsOfImporters(g, n) == {inferSubsystem(f) : f \in Range(g[n].importedBy)}

\* C27: in the graph returned by buildUsageGraph the subsystem list of every
\* node has no duplicates and is exactly the set of tags inferred from the
\* paths of the files in the node's importedBy list.
C27_SubsystemFromImporters ==
  GraphBuilt =>
    \A n \in DOMAIN graph :
      /\ NoDuplicates(graph[n].subsystem)
      /\ Range(graph[n].subsystem) = TagsOfImporters(graph, n)

\* C29: a changed file is in skippedFiles.failed only if the retrieval of its
\* old or of its new content failed; a file whose contents were both
\* retrieved with success is not in the bucket, whatever their text.
C29_FailedOnlyOnFailure ==
  pc = "analyzed" =>
    \A i \in DOMAIN changes :
      Includes(breakingChanges.skippedFiles.failed, changes[i].path)
        => \/ ~retrieved[changes[i].path].old.success
           \/ ~retrieved[changes[i].path].new.success

\* C30: whenever a report is generated, the number of files by which the
\* total risk score is divided to give the average is at least 1.
C30_AverageDivisorPositive ==
  report.generated => report.totalFiles >= 1
====
